---------------------------- MODULE Spec2Model ----------------------------
(***************************************************************************)
(* Metadata resolution of yt-msd: process_track of ytmsd.py and of         *)
(* ytmscp_cli.py, the providers' retry loops, the ranking of candidates    *)
(* and the countdown-guarded selector get_user_choice.                     *)
(*                                                                         *)
(* Python strings are sequences of one-character strings.  Python's None   *)
(* is the one-element sequence None, and a key that a dict does not hold   *)
(* is Absent; neither is a sequence of characters.                         *)
(***************************************************************************)
EXTENDS Integers, Sequences, FiniteSets, TLC

None == <<"None">>

Absent == <<"Absent">>

IsStr(s) == s # None /\ s # Absent

\* Python truthiness of a str-or-None value
Truthy(s) == IsStr(s) /\ s # <<>>

\* dict.get(key, default): the default only when the key is missing
Get(v, default) == IF v = Absent THEN default ELSE v

\* dict.get(key): None when the key is missing
GetOrNone(v) == Get(v, None)

\* Python's `a or b` on str-or-None values
Or(a, b) == IF Truthy(a) THEN a ELSE b

UpperChars == <<"A","B","C","D","E","F","G","H","I","J","K","L","M",
                "N","O","P","Q","R","S","T","U","V","W","X","Y","Z">>

LowerChars == <<"a","b","c","d","e","f","g","h","i","j","k","l","m",
                "n","o","p","q","r","s","t","u","v","w","x","y","z">>

LowerChar(c) ==
    IF \E i \in 1..Len(UpperChars) : UpperChars[i] = c
    THEN LowerChars[CHOOSE i \in 1..Len(UpperChars) : UpperChars[i] = c]
    ELSE c

\* str.lower()
Lower(s) == [i \in 1..Len(s) |-> LowerChar(s[i])]

IsSpace(c) == c = " "

RECURSIVE LStrip(_)
LStrip(s) == IF s # <<>> /\ IsSpace(Head(s)) THEN LStrip(Tail(s)) ELSE s

RECURSIVE RStrip(_)
RStrip(s) ==
    IF s # <<>> /\ IsSpace(s[Len(s)]) THEN RStrip(SubSeq(s, 1, Len(s) - 1)) ELSE s

\* str.strip()
Strip(s) == RStrip(LStrip(s))

\* s[i..] starts with the literal lit, case-insensitively (re.IGNORECASE)
MatchesAtCI(s, i, lit) ==
    /\ i + Len(lit) - 1 <= Len(s)
    /\ \A k \in 1..Len(lit) : LowerChar(s[i + k - 1]) = LowerChar(lit[k])

\* s[i..] starts with the literal lit
MatchesAt(s, i, lit) ==
    /\ i + Len(lit) - 1 <= Len(s)
    /\ \A k \in 1..Len(lit) : s[i + k - 1] = lit[k]

\* lit in s
Contains(s, lit) == \E i \in 1..(Len(s) + 1) : MatchesAt(s, i, lit)

\* str.startswith(lit)
StartsWith(s, lit) == MatchesAt(s, 1, lit)

\* number of whitespace characters from position i on (the greedy \s*)
RECURSIVE SpacesAt(_, _)
SpacesAt(s, i) == IF i <= Len(s) /\ IsSpace(s[i]) THEN 1 + SpacesAt(s, i + 1) ELSE 0

(***************************************************************************)
(* difflib.SequenceMatcher(None, a, b).ratio() without junk: the longest   *)
(* matching block (earliest in a, then earliest in b), then the blocks to  *)
(* its left and to its right; ratio = 2 * matches / (len(a) + len(b)).     *)
(* Positions are 1-based and the ranges are half-open [lo, hi).            *)
(***************************************************************************)
RECURSIVE CommonLen(_, _, _, _, _, _)
CommonLen(a, i, ahi, b, j, bhi) ==
    IF i < ahi /\ j < bhi /\ a[i] = b[j]
    THEN 1 + CommonLen(a, i + 1, ahi, b, j + 1, bhi)
    ELSE 0

SetMax(S) == CHOOSE x \in S : \A y \in S : y <= x

SetMin(S) == CHOOSE x \in S : \A y \in S : x <= y

FindLongestMatch(a, alo, ahi, b, blo, bhi) ==
    LET pairs == (alo..(ahi - 1)) \X (blo..(bhi - 1))
        size == [p \in pairs |-> CommonLen(a, p[1], ahi, b, p[2], bhi)]
        bestsize == SetMax({size[p] : p \in pairs} \cup {0})
        besti == SetMin({p[1] : p \in {q \in pairs : size[q] = bestsize}})
        bestj == SetMin({p[2] : p \in {q \in pairs : size[q] = bestsize /\ q[1] = besti}})
    IN  IF bestsize = 0
        THEN [i |-> alo, j |-> blo, k |-> 0]
        ELSE [i |-> besti, j |-> bestj, k |-> bestsize]

RECURSIVE MatchCount(_, _, _, _, _, _)
MatchCount(a, alo, ahi, b, blo, bhi) ==
    IF alo >= ahi \/ blo >= bhi
    THEN 0
    ELSE LET m == FindLongestMatch(a, alo, ahi, b, blo, bhi)
         IN  IF m.k = 0
             THEN 0
             ELSE m.k + MatchCount(a, alo, m.i, b, blo, m.j)
                      + MatchCount(a, m.i + m.k, ahi, b, m.j + m.k, bhi)

\* ratio() as the fraction num/den
Ratio(a, b) ==
    IF Len(a) + Len(b) = 0
    THEN [num |-> 1, den |-> 1]
    ELSE [num |-> 2 * MatchCount(a, 1, Len(a) + 1, b, 1, Len(b) + 1),
          den |-> Len(a) + Len(b)]

RatioGreater(r1, r2) == r1.num * r2.den > r2.num * r1.den

\* the nested similarity(a, b) of process_track
similarity(a, b) == Ratio(Lower(a), Lower(b))

(***************************************************************************)
(* re.sub(pattern, '', s): M_<pattern>(s, i) is the length of the         *)
(* pattern's match that starts at position i, 0 when there is none (no     *)
(* pattern used here matches the empty string).  Matches are removed       *)
(* leftmost first and do not overlap.                                      *)
(***************************************************************************)
\* first position j >= i where the literal lit starts (case-insensitive), 0 if none
RECURSIVE FindCI(_, _, _)
FindCI(s, i, lit) ==
    IF i + Len(lit) - 1 > Len(s)
    THEN 0
    ELSE IF MatchesAtCI(s, i, lit) THEN i ELSE FindCI(s, i + 1, lit)

Digits == {"0","1","2","3","4","5","6","7","8","9"}

IsWordChar(c) ==
    \/ c \in Digits
    \/ c = "_"
    \/ \E k \in 1..Len(UpperChars) : c = UpperChars[k] \/ c = LowerChars[k]

sTopic == <<"T","o","p","i","c">>

sVEVO == <<"V","E","V","O">>

sOfficial == <<"O","f","f","i","c","i","a","l">>

sUnknown == <<"U","n","k","n","o","w","n">>

\* r'\s*-\s*Topic'
M_Topic(s, i) ==
    LET n1 == SpacesAt(s, i)
        d  == i + n1
        n2 == SpacesAt(s, d + 1)
    IN  IF d <= Len(s) /\ s[d] = "-" /\ MatchesAtCI(s, d + 1 + n2, sTopic)
        THEN n1 + 1 + n2 + Len(sTopic)
        ELSE 0

\* r'\s*VEVO'
M_VEVO(s, i) ==
    LET n1 == SpacesAt(s, i)
    IN  IF MatchesAtCI(s, i + n1, sVEVO) THEN n1 + Len(sVEVO) ELSE 0

\* r'Official'
M_Official(s, i) == IF MatchesAtCI(s, i, sOfficial) THEN Len(sOfficial) ELSE 0

\* r'\s*\(Official.*?\)' and r'\s*\[Official.*?\]': open, close are the brackets
M_OfficialClause(s, i, open, close) ==
    LET n1 == SpacesAt(s, i)
        o  == i + n1
        e  == FindCI(s, o + 1 + Len(sOfficial), <<close>>)
    IN  IF MatchesAtCI(s, o, <<open>> \o sOfficial) /\ e > 0
        THEN e - i + 1
        ELSE 0

M_OfficialParen(s, i) == M_OfficialClause(s, i, "(", ")")

M_OfficialBracket(s, i) == M_OfficialClause(s, i, "[", "]")

\* r'\s*\(.*?word\)'
M_ParenEnding(s, i, word) ==
    LET n1 == SpacesAt(s, i)
        o  == i + n1
        e  == FindCI(s, o + 1, word \o <<")">>)
    IN  IF o <= Len(s) /\ s[o] = "(" /\ e > 0
        THEN e + Len(word) + 1 - i
        ELSE 0

M_Audio(s, i) == M_ParenEnding(s, i, <<"A","u","d","i","o">>)

M_Video(s, i) == M_ParenEnding(s, i, <<"V","i","d","e","o">>)

M_ParenMV(s, i) == M_ParenEnding(s, i, <<"M","V">>)

\* r'\s*MV\s*'
M_MV(s, i) ==
    LET n1 == SpacesAt(s, i)
    IN  IF MatchesAtCI(s, i + n1, <<"M","V">>)
        THEN n1 + 2 + SpacesAt(s, i + n1 + 2)
        ELSE 0

\* r'\s*[\(\[]?\s*f(ea)?t\.?\s+.*?[\)\]]?': the lazy .*? before the optional
\* closing bracket matches nothing, so the match ends after the whitespace
\* (and a bracket that follows it directly)
M_Feat(s, i) ==
    LET n1 == SpacesAt(s, i)
        b  == IF i + n1 <= Len(s) /\ s[i + n1] \in {"(", "["} THEN 1 ELSE 0
        n2 == SpacesAt(s, i + n1 + b)
        f  == i + n1 + b + n2
        w  == IF MatchesAtCI(s, f, <<"f","t">>) THEN 2
              ELSE IF MatchesAtCI(s, f, <<"f","e","a","t">>) THEN 4
              ELSE 0
        dot == IF f + w <= Len(s) /\ s[f + w] = "." THEN 1 ELSE 0
        n3 == SpacesAt(s, f + w + dot)
        c  == f + w + dot + n3
        cb == IF c <= Len(s) /\ s[c] \in {")", "]"} THEN 1 ELSE 0
    IN  IF w > 0 /\ n3 > 0 THEN c + cb - i ELSE 0

\* r'[^\w\s\-/&]'
M_Special(s, i) ==
    IF IsWordChar(s[i]) \/ IsSpace(s[i]) \/ s[i] \in {"-", "/", "&"} THEN 0 ELSE 1

\* the length of the match of pattern pat at position i of s, 0 if none
MatchLen(pat, s, i) ==
    CASE pat = "topic"            -> M_Topic(s, i)
      [] pat = "vevo"             -> M_VEVO(s, i)
      [] pat = "official"         -> M_Official(s, i)
      [] pat = "official_paren"   -> M_OfficialParen(s, i)
      [] pat = "official_bracket" -> M_OfficialBracket(s, i)
      [] pat = "audio"            -> M_Audio(s, i)
      [] pat = "video"            -> M_Video(s, i)
      [] pat = "paren_mv"         -> M_ParenMV(s, i)
      [] pat = "mv"               -> M_MV(s, i)
      [] pat = "feat"             -> M_Feat(s, i)
      [] pat = "special"          -> M_Special(s, i)

\* re.sub(pat, '', s): the leftmost matches, left to right, are dropped
RECURSIVE ReSubFrom(_, _, _)
ReSubFrom(pat, s, i) ==
    IF i > Len(s)
    THEN <<>>
    ELSE IF MatchLen(pat, s, i) > 0
         THEN ReSubFrom(pat, s, i + MatchLen(pat, s, i))
         ELSE <<s[i]>> \o ReSubFrom(pat, s, i + 1)

ReSub(pat, s) == ReSubFrom(pat, s, 1)

\* the substitutions pats applied to s one after the other
RECURSIVE ReSubAll(_, _)
ReSubAll(pats, s) ==
    IF pats = <<>> THEN s ELSE ReSubAll(Tail(pats), ReSub(Head(pats), s))

\* the three substitutions applied to an uploader name
CleanUploader(u) == ReSubAll(<<"topic", "vevo", "official">>, u)

\* the eight substitutions extract_search_query applies to a title
CleanTitle(t) ==
    ReSubAll(<<"official_paren", "official_bracket", "audio", "video", "paren_mv",
               "mv", "feat", "special">>, t)

sDash == <<" ","-"," ">>

\* first position of the literal lit in s, 0 if none
RECURSIVE Find(_, _, _)
Find(s, i, lit) ==
    IF i + Len(lit) - 1 > Len(s)
    THEN 0
    ELSE IF MatchesAt(s, i, lit) THEN i ELSE Find(s, i + 1, lit)

extract_search_query(entry) ==
    LET title == CleanTitle(Get(entry.title, <<>>))
        uploader == CleanUploader(Get(entry.uploader, <<>>))
        d == Find(title, 1, sDash)
    IN  IF d > 0
        THEN Strip(SubSeq(title, 1, d - 1)) \o <<" ">>
                 \o Strip(SubSeq(title, d + Len(sDash), Len(title)))
        ELSE Strip(uploader \o <<" ">> \o title)

(***************************************************************************)
(* Metadata records.  A record that a provider or the fallback produced    *)
(* has the fields title, artist and source (the provenance tag); NoMeta is *)
(* `metadata = None`.                                                      *)
(***************************************************************************)
NoMeta == [title |-> None, artist |-> None, source |-> "unset"]

Providers == <<"ytm", "mb", "it">>

ProviderTag(p) ==
    CASE p = "ytm" -> "YouTube Music"
      [] p = "mb"  -> "MusicBrainz"
      [] p = "it"  -> "iTunes"

sAb == <<"A","b">>

sCd == <<"C","d">>

sXy == <<"X","y">>

\* a yt-dlp JSON object of a search hit or of a fetched page
YtmItem(track, title, artist, uploader) ==
    [track |-> track, title |-> title, artist |-> artist, uploader |-> uploader]

\* a MusicBrainz recording: its title and the name of its first artist credit
MbItem(title, credit) == [title |-> title, credit |-> credit]

\* an iTunes result
ItItem(trackName, artistName) == [trackName |-> trackName, artistName |-> artistName]

\* the dict YouTubeMusicSource.search and get_metadata build from a JSON object
YtmRecord(d) ==
    [title  |-> Or(GetOrNone(d.track), GetOrNone(d.title)),
     artist |-> Or(GetOrNone(d.artist), GetOrNone(d.uploader)),
     source |-> "YouTube Music"]

\* the dict MusicBrainzSource.search and get_metadata build from a recording
MbRecord(d) ==
    [title  |-> GetOrNone(d.title),
     artist |-> Get(d.credit, sUnknown),
     source |-> "MusicBrainz"]

\* the dict iTunesSource.search and get_metadata build from a result
ItRecord(d) ==
    [title  |-> GetOrNone(d.trackName),
     artist |-> GetOrNone(d.artistName),
     source |-> "iTunes"]

ToRecord(p, d) ==
    CASE p = "ytm" -> YtmRecord(d)
      [] p = "mb"  -> MbRecord(d)
      [] p = "it"  -> ItRecord(d)

\* what each upstream can answer a search with, best hit first; a search
\* reply is a prefix of it and a fetch reply one of its first items
YtmUpstream ==
    << YtmItem(Absent, sCd, Absent, sAb),
       YtmItem(sCd, sCd \o <<" ","(","L",")">>, sXy, sXy \o sVEVO),
       YtmItem(Absent, None, Absent, sAb),
       YtmItem(sXy, sXy, sAb, sAb) >>

MbUpstream ==
    << MbItem(sCd, sAb),
       MbItem(Absent, sAb),
       MbItem(sXy, Absent),
       MbItem(sCd, sXy) >>

ItUpstream ==
    << ItItem(<<>>, sAb),
       ItItem(sCd, sAb),
       ItItem(Absent, Absent),
       ItItem(sXy, sAb) >>

Upstream(p) ==
    CASE p = "ytm" -> YtmUpstream
      [] p = "mb"  -> MbUpstream
      [] p = "it"  -> ItUpstream

\* longest upstream reply the model draws
MaxUpstream == 2

\* a variant of Prefix that lets one more element through
PrefixOneMore(s, n) == SubSeq(s, 1, IF n + 1 < Len(s) THEN n + 1 ELSE Len(s))

Prefix(s, n) == SubSeq(s, 1, IF n < Len(s) THEN n ELSE Len(s))

\* results[:3]
ResultCap == 3

(***************************************************************************)
(* The track entry (yt-dlp's JSON of the source video) and the listing     *)
(* get_youtube_fallback_metadata fetches again.                            *)
(***************************************************************************)
Entry(title, uploader, track, artist) ==
    [title |-> title, uploader |-> uploader, track |-> track, artist |-> artist]

EntryTopic == Entry(sAb \o sDash \o sCd, sAb \o sDash \o sTopic, Absent, Absent)

EntryVevo == Entry(sCd, sVEVO, Absent, Absent)

EntryBare == Entry(sAb \o sDash \o sCd \o <<" ","(","M","V",")">>, Absent, Absent, Absent)

EntryTagged == Entry(sCd \o <<" ","(","L",")">>, sAb \o sVEVO, sCd, sAb)

\* a listing with neither title nor uploader
BareListing == Entry(Absent, Absent, Absent, Absent)

sHttp == <<"h","t","t","p",":","/","/">>

sHttps == <<"h","t","t","p","s",":","/","/">>

UrlMb == sHttp \o <<"m","/","r","e","c","o","r","d","i","n","g","/","a","1">>

UrlIt == sHttps \o <<"i","/","i","d","7">>

UrlOther == sHttp \o <<"y","/","w">>

HexChars == Digits \cup {"a","b","c","d","e","f","-"}

\* re.search(r'/recording/([a-f0-9-]+)', url)
MbUrlMatch(url) ==
    LET lit == <<"/","r","e","c","o","r","d","i","n","g","/">>
    IN  \E i \in 1..Len(url) :
            /\ MatchesAt(url, i, lit)
            /\ i + Len(lit) <= Len(url)
            /\ url[i + Len(lit)] \in HexChars

\* re.search(r'id(\d+)', url)
ItUrlMatch(url) ==
    \E i \in 1..Len(url) :
        /\ MatchesAt(url, i, <<"i","d">>)
        /\ i + 2 <= Len(url)
        /\ url[i + 2] \in Digits

\* the provider's get_metadata looks the URL up at all
UrlAccepted(p, url) ==
    CASE p = "ytm" -> TRUE
      [] p = "mb"  -> MbUrlMatch(url)
      [] p = "it"  -> ItUrlMatch(url)

(***************************************************************************)
(* State.                                                                  *)
(***************************************************************************)
VARIABLES
    impl,               \* "ytmsd" or "ytmscp": which script runs
    config,             \* config['sources']: provider -> enabled flag
    is_youtube_music,   \* process_track's arguments
    meta_source,
    metadata_url,
    entry,
    pc,                 \* position of the main thread
    query,              \* process_track's locals
    all_results,
    new_results,
    metadata,
    choice,
    user_input,
    idx,                \* position of a `for source in sources` loop
    call,               \* the provider operation under way
    callLog,            \* its attempts so far: what the upstream did in each
    retval,             \* what the last operation returned
    max_choice,         \* get_user_choice's argument and locals
    ticks,
    result_queue,
    choice_str,
    readers,            \* input_thread threads blocked in input(), oldest first
    stdin,              \* "open" or "eof"
    selLog,             \* one entry per get_user_choice call of this track, with
                        \* the candidate list as it was before the ranking
    prompts,            \* times the link/query prompt was shown
    calls,              \* the provider operations started for this track
    exc,                \* the exception that left process_track, if any
    thumbnail,          \* apply_metadata: metadata['thumbnail']
    cover_path,         \* its argument: "none", "missing" (no such file) or "present"
    apc,                \* position in apply_metadata
    use_original,       \* its locals
    filter_complex,     \* the filter of the ffmpeg run on the cover file
    cover_in,           \* the cover file handed to the final ffmpeg run
    run,                \* 1, or 2 when the same track is resolved once more
    trace,              \* the upstream's responses in the first run, per operation
    first,              \* what the first run finalized and the operations it started
    tasks,              \* main: the task list; per task, whether its URL is valid
    task_idx,           \* main: the task of the current pass of the loop
    mpc,                \* position in main
    fetch_attempt,      \* main: the attempt of the entry fetch
    entries,            \* main: the number of entries fetched for the task
    entry_idx,          \* main: the entry handed to process_track
    attempted,          \* the tasks whose entry fetch was started, in order
    cover_src,          \* ytmscp_cli.py process_track: cover_url, where the cover came from
    entry_thumbnail,    \* entry.get('thumbnail')
    source_instance,    \* whether an enabled provider matches metadata['source']
    thumbnails,         \* _select_thumbnail: data.get('thumbnails', [])
    default_thumbnail,  \* data.get('thumbnail')
    selected,           \* what _select_thumbnail returned
    tpc,                \* position in _select_thumbnail
    config_file,        \* what is at CONFIG_FILE when the run starts
    loaded,             \* what load_config returned
    enabled,            \* what get_enabled_sources returned
    used_timeout,       \* the timeout argument of the provider call made
    cpc,                \* position in main's startup and the call after it
    cmd,                \* download_audio: the yt-dlp command
    download_attempt,   \* its loop variable
    debug,              \* whether --debug is in sys.argv
    runs,               \* the commands download_audio has run
    dpc                 \* position in download_audio

inputs == <<impl, config, is_youtube_music, meta_source, metadata_url, entry>>

locals == <<query, all_results, new_results, metadata, choice, user_input, idx>>

callVars == <<call, callLog, retval>>

selVars == <<max_choice, ticks, result_queue, choice_str>>

ioVars == <<readers, stdin>>

histVars == <<selLog, prompts, calls>>

coverVars == <<thumbnail, cover_path, apc, use_original, filter_complex, cover_in>>

replayVars == <<run, trace, first>>

batchVars == <<tasks, task_idx, mpc, fetch_attempt, entries, entry_idx, attempted>>

pickVars == <<cover_src, entry_thumbnail, source_instance>>

thumbVars == <<thumbnails, default_thumbnail, selected, tpc>>

configVars == <<config_file, loaded, enabled, used_timeout, cpc>>

downloadVars == <<cmd, download_attempt, debug, runs, dpc>>

outerVars == <<batchVars, pickVars, thumbVars, configVars, downloadVars>>

\* process_track's own state, and what apply_metadata and the second run add
trackVars == <<inputs, pc, locals, callVars, selVars, ioVars, histVars, exc>>

\* everything but main's loop
notBatch == <<trackVars, coverVars, replayVars, pickVars, thumbVars, configVars,
              downloadVars>>

\* everything but the choice of the cover and apply_metadata
notCover == <<trackVars, replayVars, batchVars, thumbVars, configVars, downloadVars>>

\* everything but _select_thumbnail
notThumb == <<trackVars, coverVars, replayVars, batchVars, pickVars, configVars,
              downloadVars>>

\* everything but the configuration at startup
notConfig == <<trackVars, coverVars, replayVars, batchVars, pickVars, thumbVars,
               downloadVars>>

\* everything but download_audio
notDownload == <<trackVars, coverVars, replayVars, batchVars, pickVars, thumbVars,
                 configVars>>

vars == <<inputs, pc, locals, callVars, selVars, ioVars, histVars, exc, coverVars,
          replayVars, outerVars>>

sYt == <<"y","t">>

sYtm == <<"y","t","m">>

sMb == <<"m","b">>

sIt == <<"i","t">>

\* get_enabled_sources: the enabled providers in source_map's order
RECURSIVE EnabledFrom(_, _)
EnabledFrom(cfg, ps) ==
    IF ps = <<>>
    THEN <<>>
    ELSE (IF cfg[Head(ps)] THEN <<Head(ps)>> ELSE <<>>) \o EnabledFrom(cfg, Tail(ps))

get_enabled_sources(cfg) == EnabledFrom(cfg, Providers)

sources == get_enabled_sources(config)

(***************************************************************************)
(* Provider operations: search, get_metadata (fetch), get_cover_url        *)
(* (cover) and get_youtube_fallback_metadata (fallback).  One Attempt is   *)
(* one pass through the operation's `for attempt in range(max_retries)`    *)
(* loop (ytmsd.py) or through its single try block (ytmscp_cli.py).        *)
(***************************************************************************)
max_retries == 3

MaxRetries(im) == IF im = "ytmsd" THEN max_retries ELSE 1

IdleCall == [op |-> "none", prov |-> "none", arg |-> <<>>, ret |-> "none", attempt |-> 0]

NoRet == [list |-> <<>>, rec |-> NoMeta, str |-> None]

NewCall(op, prov, arg, ret) ==
    [op |-> op, prov |-> prov, arg |-> arg, ret |-> ret, attempt |-> 0]

Outcome(kind, data) == [kind |-> kind, data |-> data]

\* what the upstream can do in one attempt of operation c; a search inside
\* process_track is answered with at most MaxUpstream items, a search called
\* on its own with any number of them
Outcomes(c, e) ==
    CASE c.op = "search" ->
            {Outcome("timeout", <<>>), Outcome("error", <<>>)}
            \cup {Outcome("ok", Prefix(Upstream(c.prov), n)) :
                     n \in 0..(IF c.ret = "done" THEN Len(Upstream(c.prov)) ELSE MaxUpstream)}
      [] c.op = "fetch" ->
            IF ~UrlAccepted(c.prov, c.arg)
            THEN {Outcome("nomatch", <<>>)}
            ELSE {Outcome("timeout", <<>>), Outcome("error", <<>>)}
                 \cup (IF c.prov = "it" THEN {Outcome("ok", <<>>)} ELSE {})
                 \cup {Outcome("ok", <<Upstream(c.prov)[n]>>) : n \in 1..(MaxUpstream + 1)}
      [] c.op = "cover" ->
            IF ~Truthy(c.arg)
            THEN {Outcome("nomatch", <<>>)}
            ELSE {Outcome("timeout", <<>>), Outcome("error", <<>>),
                  Outcome("ok", <<200>>), Outcome("ok", <<204>>)}
      [] c.op = "fallback" ->
            {Outcome("timeout", <<>>), Outcome("error", <<>>),
             Outcome("ok", <<e>>), Outcome("ok", <<BareListing>>)}

\* the dict get_youtube_fallback_metadata builds from a listing
FallbackRecord(d) ==
    [title  |-> Get(d.title, sUnknown),
     artist |-> CleanUploader(Get(d.uploader, sUnknown)),
     source |-> "YouTube Fallback"]

\* re.sub raises TypeError on an uploader that is None
FallbackRaises(d) == ~IsStr(Get(d.uploader, sUnknown))

RECURSIVE MapRecords(_, _)
MapRecords(p, ds) ==
    IF ds = <<>> THEN <<>> ELSE <<ToRecord(p, Head(ds))>> \o MapRecords(p, Tail(ds))

sCoverArt == <<"c","a","a","/">>

\* f"{COVER_ART_URL}/{release_mbid}/front"
CoverUrl(mbid) == sCoverArt \o mbid \o <<"/","f","r","o","n","t">>

Returns(v) == [status |-> "return", value |-> v, exc |-> "none"]

Retries == [status |-> "retry", value |-> NoRet, exc |-> "none"]

Raises(e) == [status |-> "raise", value |-> NoRet, exc |-> e]

\* the operation's "no result" value
Miss(c) == NoRet

\* the value a successful attempt returns, or "fail" when the attempt raises
\* inside the try block although the upstream answered
Success(c, o) ==
    CASE c.op = "search" ->
            Returns([NoRet EXCEPT !.list = Prefix(MapRecords(c.prov, o.data), ResultCap)])
      [] c.op = "fetch" /\ c.prov = "ytm" ->
            IF o.data = <<>>
            THEN [status |-> "fail", value |-> NoRet, exc |-> "JSONDecodeError"]
            ELSE LET m == YtmRecord(o.data[1])
                 IN  IF Truthy(m.title) /\ Truthy(m.artist)
                     THEN Returns([NoRet EXCEPT !.rec = m])
                     ELSE Returns(NoRet)
      [] c.op = "fetch" /\ c.prov = "mb" ->
            IF o.data = <<>>
            THEN [status |-> "fail", value |-> NoRet, exc |-> "JSONDecodeError"]
            ELSE Returns([NoRet EXCEPT !.rec = MbRecord(o.data[1])])
      [] c.op = "fetch" /\ c.prov = "it" ->
            IF o.data = <<>>
            THEN [status |-> "fail", value |-> NoRet, exc |-> "IndexError"]
            ELSE IF o.data[1] = ItItem(Absent, Absent)
                 THEN Returns(NoRet)
                 ELSE Returns([NoRet EXCEPT !.rec = ItRecord(o.data[1])])
      [] c.op = "cover" ->
            IF o.data[1] = 200
            THEN Returns([NoRet EXCEPT !.str = CoverUrl(c.arg)])
            ELSE [status |-> "fail", value |-> NoRet, exc |-> "none"]
      [] c.op = "fallback" ->
            IF FallbackRaises(o.data[1])
            THEN [status |-> "fail", value |-> NoRet, exc |-> "TypeError"]
            ELSE Returns([NoRet EXCEPT !.rec = FallbackRecord(o.data[1])])

\* a variant of Exhausted that lets the last failure out instead of turning it
\* into the miss value
ExhaustedRaises(c, e) == Raises("Exception")

\* after the last failed attempt: the miss value; the fallback builds its
\* record from the entry, outside any try block
Exhausted(c, e) ==
    IF c.op = "fallback"
    THEN IF FallbackRaises(e)
         THEN Raises("TypeError")
         ELSE Returns([NoRet EXCEPT !.rec = FallbackRecord(e)])
    ELSE Returns(Miss(c))

\* a variant of AttemptResult whose last pass ignores what the upstream
\* answered
AttemptResultDropsLast(im, c, o, e) ==
    IF o.kind = "nomatch"
    THEN Returns(Miss(c))
    ELSE IF c.attempt + 1 < MaxRetries(im)
         THEN IF o.kind = "ok" /\ Success(c, o).status = "return"
              THEN Success(c, o)
              ELSE Retries
         ELSE Exhausted(c, e)

\* a variant of AttemptResult that treats an answer without a usable record as
\* a failed attempt
AttemptResultRetriesMiss(im, c, o, e) ==
    IF o.kind = "nomatch"
    THEN Returns(Miss(c))
    ELSE IF o.kind = "ok" /\ Success(c, o).status = "return" /\ Success(c, o).value # NoRet
         THEN Success(c, o)
         ELSE IF c.attempt + 1 < MaxRetries(im)
              THEN Retries
              ELSE Exhausted(c, e)

\* one pass through the loop body
AttemptResult(im, c, o, e) ==
    IF o.kind = "nomatch"
    THEN Returns(Miss(c))
    ELSE IF o.kind = "ok" /\ Success(c, o).status = "return"
         THEN Success(c, o)
         ELSE IF c.attempt + 1 < MaxRetries(im)
              THEN Retries
              ELSE Exhausted(c, e)

(***************************************************************************)
(* Ranking: list.sort(key = similarity to the query, reverse = True).      *)
(***************************************************************************)
\* r.get('artist', '') + ' ' + r.get('title', '') raises TypeError on a None
KeyRaises(r) == ~IsStr(r.artist) \/ ~IsStr(r.title)

\* a variant of SortKey that compares the query with the title alone
SortKeyTitleOnly(q, r) == similarity(q, r.title)

SortKey(q, r) == similarity(q, r.artist \o <<" ">> \o r.title)

\* a variant of InsertDesc that puts x before the elements whose key equals
\* its own
RECURSIVE InsertDescUnstable(_, _, _)
InsertDescUnstable(q, x, s) ==
    IF s = <<>>
    THEN <<x>>
    ELSE IF ~RatioGreater(SortKey(q, Head(s)), SortKey(q, x))
         THEN <<x>> \o s
         ELSE <<Head(s)>> \o InsertDescUnstable(q, x, Tail(s))

\* x goes before the first element whose key is smaller than its own
RECURSIVE InsertDesc(_, _, _)
InsertDesc(q, x, s) ==
    IF s = <<>>
    THEN <<x>>
    ELSE IF RatioGreater(SortKey(q, x), SortKey(q, Head(s)))
         THEN <<x>> \o s
         ELSE <<Head(s)>> \o InsertDesc(q, x, Tail(s))

\* the stable sort, keys descending
RECURSIVE SortDesc(_, _)
SortDesc(q, rs) ==
    IF rs = <<>>
    THEN <<>>
    ELSE InsertDesc(q, rs[Len(rs)], SortDesc(q, SubSeq(rs, 1, Len(rs) - 1)))

\* the key of the nested sort, similarity(...).lower(), raises on the first
\* element: in the branch where `similarity` was never defined the name is
\* unbound; elsewhere the concatenation raises TypeError on a None, and the
\* float that similarity returns has no lower()
NestedKeyExc(site, rs) ==
    IF site = "none"
    THEN "NameError"
    ELSE IF KeyRaises(rs[1]) THEN "TypeError" ELSE "AttributeError"

(***************************************************************************)
(* The lines a human may type, and int().                                  *)
(***************************************************************************)
Lines == { <<"0","0">>, <<"0">>, <<"1">>, <<"2">>, <<>>, sXy \o <<" ">>, UrlMb }

IsNumeral(s) == s # <<>> /\ \A i \in 1..Len(s) : s[i] \in Digits

DigitValue(c) ==
    CASE c = "0" -> 0 [] c = "1" -> 1 [] c = "2" -> 2 [] c = "3" -> 3 [] c = "4" -> 4
      [] c = "5" -> 5 [] c = "6" -> 6 [] c = "7" -> 7 [] c = "8" -> 8 [] c = "9" -> 9

\* int(s) for a string of digits
RECURSIVE ParseInt(_)
ParseInt(s) ==
    IF s = <<>> THEN 0 ELSE 10 * ParseInt(SubSeq(s, 1, Len(s) - 1)) + DigitValue(s[Len(s)])

\* the countdown of get_user_choice
timeout == 10

\* process_track's query
BuildQuery(e) ==
    LET q == Or(GetOrNone(e.track), Get(e.title, <<>>))
        artist == Or(GetOrNone(e.artist), Get(e.uploader, <<>>))
    IN  IF Truthy(artist) THEN artist \o <<" ">> \o q ELSE extract_search_query(e)

valid_sources == {sYt, sYtm, sMb, sIt}

\* source_map of get_metadata_from_source
SourceOf(name) ==
    CASE name = sYtm -> "ytm"
      [] name = sMb  -> "mb"
      [] name = sIt  -> "it"

(***************************************************************************)
(* One track going through process_track.                                  *)
(***************************************************************************)
\* a local that is not bound yet
Unbound == -2

AllOn == [p \in {"ytm", "mb", "it"} |-> TRUE]

AllOff == [p \in {"ytm", "mb", "it"} |-> FALSE]

Only(ps) == [p \in {"ytm", "mb", "it"} |-> p \in ps]

Task(cfg, ytm, src, url, e) ==
    [config |-> cfg, is_youtube_music |-> ytm, meta_source |-> src,
     metadata_url |-> url, entry |-> e]

\* the tasks checked: plain tracks under several configurations, tracks with
\* a source directive, tracks with a metadata URL, YouTube Music tracks
Tasks ==
    {Task(c, FALSE, None, None, EntryTopic) : c \in {AllOn, Only({"ytm", "mb"})}}
    \cup {Task(c, FALSE, None, None, EntryVevo) : c \in {AllOff, Only({"it"}), Only({"mb"})}}
    \cup {Task(Only({"mb"}), FALSE, s, None, EntryBare) : s \in {sYt, sYtm, <<"M","B">>, <<"x","x">>}}
    \cup {Task(Only({"mb", "it"}), FALSE, None, u, EntryTagged) : u \in {UrlMb, UrlIt, UrlOther}}
    \cup {Task(c, TRUE, s, None, EntryTagged) : c \in {AllOff}, s \in {None, sIt}}
    \cup {Task(Only({"it"}), FALSE, s, None, EntryBare) : s \in {None, sIt}}
    \cup {Task(Only({"mb"}), TRUE, None, UrlMb, EntryTagged)}
    \cup {Task(Only({"mb"}), FALSE, sMb, UrlMb, EntryBare)}

InitLocals ==
    /\ query = <<>>
    /\ all_results = <<>>
    /\ new_results = <<>>
    /\ metadata = NoMeta
    /\ choice = Unbound
    /\ user_input = <<>>
    /\ idx = 0

InitCall ==
    /\ callLog = <<>>
    /\ retval = NoRet

InitSelector ==
    /\ max_choice = 0
    /\ ticks = 0
    /\ result_queue = <<>>
    /\ choice_str = None

\* apply_metadata is not running
IdleCover ==
    /\ thumbnail = None
    /\ cover_path = "none"
    /\ apc = "idle"
    /\ use_original = TRUE
    /\ filter_complex = "none"
    /\ cover_in = "none"

\* main's loop is not running
IdleBatch ==
    /\ tasks = <<>>
    /\ task_idx = 0
    /\ mpc = "idle"
    /\ fetch_attempt = 0
    /\ entries = 0
    /\ entry_idx = 0
    /\ attempted = <<>>

\* the cover is not being chosen
IdlePick ==
    /\ cover_src = None
    /\ entry_thumbnail = None
    /\ source_instance = FALSE

\* _select_thumbnail is not running
IdleThumb ==
    /\ thumbnails = <<>>
    /\ default_thumbnail = None
    /\ selected = None
    /\ tpc = "idle"

\* the startup is over
IdleConfig ==
    /\ config_file = [kind |-> "missing"]
    /\ loaded = [kind |-> "none"]
    /\ enabled = <<>>
    /\ used_timeout = 0
    /\ cpc = "idle"

\* download_audio is not running
IdleDownload ==
    /\ cmd = <<>>
    /\ download_attempt = 0
    /\ debug = FALSE
    /\ runs = <<>>
    /\ dpc = "idle"

\* the functions modelled on their own are not running
IdleTools ==
    /\ IdleThumb
    /\ IdleConfig
    /\ IdleDownload

\* nothing outside process_track is under way
IdleOuter ==
    /\ IdleBatch
    /\ IdlePick
    /\ IdleTools

\* a single run
IdleReplay ==
    /\ run = 1
    /\ trace = <<>>
    /\ first = [rec |-> NoMeta, calls |-> <<>>]

\* process_track is not running
IdleTrack ==
    /\ config = AllOn
    /\ is_youtube_music = FALSE
    /\ meta_source = None
    /\ metadata_url = None
    /\ entry = EntryTopic
    /\ pc = "done"
    /\ InitLocals
    /\ call = IdleCall
    /\ InitCall
    /\ InitSelector
    /\ readers = <<>>
    /\ stdin = "open"
    /\ selLog = <<>>
    /\ prompts = 0
    /\ calls = <<>>
    /\ exc = [type |-> "none", at |-> "none"]
    /\ IdleCover
    /\ IdleReplay

Init ==
    /\ impl \in {"ytmsd", "ytmscp"}
    /\ \E t \in Tasks :
          /\ config = t.config
          /\ is_youtube_music = t.is_youtube_music
          /\ meta_source = t.meta_source
          /\ metadata_url = t.metadata_url
          /\ entry = t.entry
    /\ pc = "start"
    /\ InitLocals
    /\ call = IdleCall
    /\ InitCall
    /\ InitSelector
    /\ readers = <<>>
    /\ stdin \in {"open", "eof"}
    /\ selLog = <<>>
    /\ prompts = 0
    /\ calls = <<>>
    /\ exc = [type |-> "none", at |-> "none"]
    /\ IdleCover
    /\ IdleReplay
    /\ IdleOuter

\* an exception leaves process_track: its frame and the frames below are gone
Raise(type, at) ==
    /\ pc' = "raised"
    /\ exc' = [type |-> type, at |-> at]
    /\ query' = <<>>
    /\ all_results' = <<>>
    /\ new_results' = <<>>
    /\ metadata' = NoMeta
    /\ choice' = Unbound
    /\ user_input' = <<>>
    /\ idx' = 0
    /\ call' = IdleCall
    /\ callLog' = <<>>
    /\ retval' = NoRet
    /\ max_choice' = 0
    /\ ticks' = 0
    /\ result_queue' = <<>>
    /\ choice_str' = None

\* start a provider operation; control comes back at ret
BeginCall(op, prov, arg, ret, site) ==
    /\ pc' = "call"
    /\ call' = NewCall(op, prov, arg, ret)
    /\ callLog' = <<>>
    /\ retval' = NoRet
    /\ calls' = Append(calls, [op |-> op, prov |-> prov, site |-> site])

\* the operation's result has been consumed
EndCall ==
    /\ call' = IdleCall
    /\ callLog' = <<>>
    /\ retval' = NoRet

\* metadata = get_youtube_fallback_metadata(entry, youtube_url)
BeginFallback(site) == BeginCall("fallback", "none", <<>>, "fallback_ret", site)

\* one pass through the retry loop of the operation under way
Attempt ==
    /\ pc = "call"
    /\ \E o \in Outcomes(call, entry) :
          LET r == AttemptResult(impl, call, o, entry)
              ok == o.kind = "ok" /\ Success(call, o).status = "return"
              log == IF o.kind = "nomatch"
                     THEN callLog
                     ELSE Append(callLog, [kind |-> o.kind, data |-> o.data, ok |-> ok])
          IN  CASE r.status = "retry" ->
                     /\ pc' = "call"
                     /\ call' = [call EXCEPT !.attempt = @ + 1]
                     /\ callLog' = log
                     /\ retval' = NoRet
                     /\ UNCHANGED <<locals, selVars, exc>>
                [] r.status = "return" ->
                     /\ pc' = call.ret
                     /\ call' = call
                     /\ callLog' = log
                     /\ retval' = r.value
                     /\ UNCHANGED <<locals, selVars, exc>>
                [] r.status = "raise" ->
                     Raise(r.exc, "fallback")
    /\ UNCHANGED <<inputs, coverVars, replayVars, outerVars, ioVars, histVars>>

\* query construction
Start ==
    /\ pc = "start"
    /\ query' = BuildQuery(entry)
    /\ pc' = "step1"
    /\ UNCHANGED <<inputs, coverVars, replayVars, outerVars, all_results, new_results, metadata, choice, user_input, idx,
                   callVars, selVars, ioVars, histVars, exc>>

\* a YouTube Music track without directive: fetch from the track's own page
\* a variant of Step1 that fetches the track's own URL whatever the directive
Step1IgnoresDirective ==
    /\ pc = "step1"
    /\ IF is_youtube_music
       THEN BeginCall("fetch", "ytm", UrlOther, "step1_ret", "step1")
       ELSE /\ pc' = "step2"
            /\ UNCHANGED <<callVars, calls>>
    /\ UNCHANGED <<inputs, coverVars, replayVars, outerVars, locals, selVars, ioVars, selLog, prompts, exc>>

Step1 ==
    /\ pc = "step1"
    /\ IF is_youtube_music /\ ~Truthy(meta_source)
       THEN BeginCall("fetch", "ytm", UrlOther, "step1_ret", "step1")
       ELSE /\ pc' = "step2"
            /\ UNCHANGED <<callVars, calls>>
    /\ UNCHANGED <<inputs, coverVars, replayVars, outerVars, locals, selVars, ioVars, selLog, prompts, exc>>

Step1Ret ==
    /\ pc = "step1_ret"
    /\ IF retval.rec # NoMeta
       THEN /\ metadata' = retval.rec
            /\ pc' = "step2"
            /\ EndCall
            /\ UNCHANGED calls
       ELSE /\ BeginFallback("step1")
            /\ UNCHANGED metadata
    /\ UNCHANGED <<inputs, coverVars, replayVars, outerVars, query, all_results, new_results, choice, user_input, idx,
                   selVars, ioVars, selLog, prompts, exc>>

\* the source directive, and get_metadata_from_source up to its search
Step2 ==
    /\ pc = "step2"
    /\ IF metadata = NoMeta /\ Truthy(meta_source) /\ Lower(meta_source) \in valid_sources
       THEN IF Lower(meta_source) = sYt
            THEN BeginFallback("directive_yt")
            ELSE BeginCall("search", SourceOf(Lower(meta_source)), query,
                           "directed_ret", "directive")
       ELSE /\ pc' = "step3"
            /\ UNCHANGED <<callVars, calls>>
    /\ UNCHANGED <<inputs, coverVars, replayVars, outerVars, locals, selVars, ioVars, selLog, prompts, exc>>

\* get_metadata_from_source after its search: rank, take the first
DirectedRet ==
    /\ pc = "directed_ret"
    /\ IF retval.list # <<>>
       THEN IF \E i \in 1..Len(retval.list) : KeyRaises(retval.list[i])
            THEN /\ Raise("TypeError", "directed_rank")
                 /\ UNCHANGED calls
            ELSE /\ metadata' = SortDesc(query, retval.list)[1]
                 /\ pc' = "step3"
                 /\ EndCall
                 /\ UNCHANGED <<query, all_results, new_results, choice, user_input, idx,
                                selVars, calls, exc>>
       ELSE /\ BeginFallback("directive_miss")
            /\ UNCHANGED <<locals, selVars, exc>>
    /\ UNCHANGED <<inputs, coverVars, replayVars, outerVars, ioVars, selLog, prompts>>

\* the assignment of the fallback's result; control goes on after the branch
\* that asked for it
FallbackRet ==
    /\ pc = "fallback_ret"
    /\ metadata' = retval.rec
    /\ pc' = CASE calls[Len(calls)].site = "step1" -> "step2"
               [] calls[Len(calls)].site \in {"directive_yt", "directive_miss"} -> "step3"
               [] OTHER -> "finalized"
    /\ EndCall
    /\ UNCHANGED <<inputs, coverVars, replayVars, outerVars, query, all_results, new_results, choice, user_input, idx,
                   selVars, ioVars, histVars, exc>>

Step3 ==
    /\ pc = "step3"
    /\ IF metadata = NoMeta /\ Truthy(metadata_url)
       THEN /\ idx' = 1
            /\ pc' = "url_loop"
       ELSE /\ idx' = idx
            /\ pc' = "step4"
    /\ UNCHANGED <<inputs, coverVars, replayVars, outerVars, query, all_results, new_results, metadata, choice, user_input,
                   callVars, selVars, ioVars, histVars, exc>>

\* a variant of FetchLoop that asks the enabled providers last to first
FetchLoopLastFirst ==
    /\ pc \in {"url_loop", "link_loop"}
    /\ IF idx <= Len(sources)
       THEN IF pc = "url_loop"
            THEN BeginCall("fetch", sources[Len(sources) - idx + 1], metadata_url, "url_ret", "url")
            ELSE BeginCall("fetch", sources[Len(sources) - idx + 1], user_input, "link_ret", "link")
       ELSE IF pc = "url_loop"
            THEN /\ pc' = "step4"
                 /\ UNCHANGED <<callVars, calls>>
            ELSE BeginFallback("link_miss")
    /\ UNCHANGED <<inputs, coverVars, replayVars, outerVars, locals, selVars, ioVars, selLog, prompts, exc>>

\* `for source in sources: direct_meta = source.get_metadata(...)`, over the
\* metadata URL or over the link the human typed
FetchLoop ==
    /\ pc \in {"url_loop", "link_loop"}
    /\ IF idx <= Len(sources)
       THEN IF pc = "url_loop"
            THEN BeginCall("fetch", sources[idx], metadata_url, "url_ret", "url")
            ELSE BeginCall("fetch", sources[idx], user_input, "link_ret", "link")
       ELSE IF pc = "url_loop"
            THEN /\ pc' = "step4"
                 /\ UNCHANGED <<callVars, calls>>
            ELSE BeginFallback("link_miss")
    /\ UNCHANGED <<inputs, coverVars, replayVars, outerVars, locals, selVars, ioVars, selLog, prompts, exc>>

\* a variant of FetchRet that goes on to the next provider after a record came
FetchRetKeepsGoing ==
    /\ pc \in {"url_ret", "link_ret"}
    /\ metadata' = IF retval.rec # NoMeta THEN retval.rec ELSE metadata
    /\ idx' = idx + 1
    /\ pc' = IF pc = "url_ret" THEN "url_loop" ELSE "link_loop"
    /\ EndCall
    /\ UNCHANGED <<inputs, coverVars, replayVars, outerVars, query, all_results, new_results, choice, user_input,
                   selVars, ioVars, histVars, exc>>

FetchRet ==
    /\ pc \in {"url_ret", "link_ret"}
    /\ IF retval.rec # NoMeta
       THEN /\ metadata' = retval.rec
            /\ idx' = idx
            /\ pc' = IF pc = "url_ret" THEN "step4" ELSE "finalized"
       ELSE /\ metadata' = metadata
            /\ idx' = idx + 1
            /\ pc' = IF pc = "url_ret" THEN "url_loop" ELSE "link_loop"
    /\ EndCall
    /\ UNCHANGED <<inputs, coverVars, replayVars, outerVars, query, all_results, new_results, choice, user_input,
                   selVars, ioVars, histVars, exc>>

Step4 ==
    /\ pc = "step4"
    /\ IF metadata # NoMeta
       THEN /\ pc' = "finalized"
            /\ idx' = idx
       ELSE /\ pc' = "search_loop"
            /\ idx' = 1
    /\ UNCHANGED <<inputs, coverVars, replayVars, outerVars, query, all_results, new_results, metadata, choice, user_input,
                   callVars, selVars, ioVars, histVars, exc>>

\* `for source in sources: results = source.search(...)`, over the query or
\* over the text the human typed
SearchLoop ==
    /\ pc \in {"search_loop", "requery_loop"}
    /\ IF idx <= Len(sources)
       THEN IF pc = "search_loop"
            THEN BeginCall("search", sources[idx], query, "search_ret", "search")
            ELSE BeginCall("search", sources[idx], user_input, "requery_ret", "requery")
       ELSE /\ pc' = IF pc = "search_loop" THEN "rank" ELSE "rank2"
            /\ UNCHANGED <<callVars, calls>>
    /\ UNCHANGED <<inputs, coverVars, replayVars, outerVars, locals, selVars, ioVars, selLog, prompts, exc>>

\* all_results.extend(results) / new_results.extend(results)
SearchRet ==
    /\ pc \in {"search_ret", "requery_ret"}
    /\ IF pc = "search_ret"
       THEN /\ all_results' = all_results \o retval.list
            /\ new_results' = new_results
            /\ pc' = "search_loop"
       ELSE /\ new_results' = new_results \o retval.list
            /\ all_results' = all_results
            /\ pc' = "requery_loop"
    /\ idx' = idx + 1
    /\ EndCall
    /\ UNCHANGED <<inputs, coverVars, replayVars, outerVars, query, metadata, choice, user_input,
                   selVars, ioVars, histVars, exc>>

(***************************************************************************)
(* get_user_choice.                                                        *)
(***************************************************************************)
\* the call: the reader thread starts and blocks in input(), the countdown
\* begins
EnterSelector(n, site) ==
    /\ pc' = "countdown"
    /\ max_choice' = n
    /\ ticks' = timeout
    /\ result_queue' = <<>>
    /\ choice_str' = None
    /\ readers' = Append(readers, Len(selLog) + 1)
    /\ selLog' = Append(selLog, [site |-> site, max |-> n, how |-> "pending", ret |-> Unbound,
                                  unranked |-> IF site = "nested" THEN new_results
                                                                  ELSE all_results])

\* a variant of DefaultChoice that never picks a candidate
DefaultChoiceNone(n) == 0

\* `return 1 if max_choice > 0 else 0`
DefaultChoice(n) == IF n > 0 THEN 1 ELSE 0

\* the return, and `choice = get_user_choice(...)`
SelReturn(how, v) ==
    /\ pc' = "chosen"
    /\ choice' = v
    /\ selLog' = [selLog EXCEPT ![Len(selLog)] = [@ EXCEPT !.how = how, !.ret = v]]
    /\ max_choice' = 0
    /\ ticks' = 0
    /\ result_queue' = <<>>
    /\ choice_str' = None

\* a variant of Rank with a sort that may exchange the two leading candidates
\* when their keys are equal
RankAnyTieOrder ==
    /\ pc = "rank"
    /\ IF all_results # <<>>
       THEN IF \E i \in 1..Len(all_results) : KeyRaises(all_results[i])
            THEN /\ Raise("TypeError", "rank")
                 /\ UNCHANGED <<readers, selLog>>
            ELSE /\ LET s == SortDesc(query, all_results)
                        tie == /\ Len(s) >= 2
                               /\ ~RatioGreater(SortKey(query, s[1]), SortKey(query, s[2]))
                    IN  all_results' \in
                            {s} \cup (IF tie THEN {<<s[2], s[1]>> \o SubSeq(s, 3, Len(s))}
                                             ELSE {})
                 /\ EnterSelector(Len(all_results), "first")
                 /\ UNCHANGED <<query, new_results, metadata, choice, user_input, idx,
                                callVars, exc>>
       ELSE /\ EnterSelector(0, "none")
            /\ UNCHANGED <<locals, callVars, exc>>
    /\ UNCHANGED <<inputs, coverVars, replayVars, outerVars, stdin, prompts, calls>>

\* the merged list is ranked and shown, and the selector entered
Rank ==
    /\ pc = "rank"
    /\ IF all_results # <<>>
       THEN IF \E i \in 1..Len(all_results) : KeyRaises(all_results[i])
            THEN /\ Raise("TypeError", "rank")
                 /\ UNCHANGED <<readers, selLog>>
            ELSE /\ all_results' = SortDesc(query, all_results)
                 /\ EnterSelector(Len(all_results), "first")
                 /\ UNCHANGED <<query, new_results, metadata, choice, user_input, idx,
                                callVars, exc>>
       ELSE /\ EnterSelector(0, "none")
            /\ UNCHANGED <<locals, callVars, exc>>
    /\ UNCHANGED <<inputs, coverVars, replayVars, outerVars, stdin, prompts, calls>>

\* one pass through the countdown loop: sleep a second, leave when the queue
\* holds something or the count is used up
Tick ==
    /\ pc = "countdown"
    /\ ticks' = ticks - 1
    /\ pc' = IF result_queue # <<>> \/ ticks = 1 THEN "get_nowait" ELSE "countdown"
    /\ UNCHANGED <<inputs, coverVars, replayVars, outerVars, locals, callVars, max_choice, result_queue, choice_str,
                   ioVars, histVars, exc>>

\* result_queue.get_nowait() and the None check
GetNowait ==
    /\ pc = "get_nowait"
    /\ IF result_queue = <<>>
       THEN /\ SelReturn("timeout", DefaultChoice(max_choice))
            /\ UNCHANGED <<query, all_results, new_results, metadata, user_input, idx>>
       ELSE IF Head(result_queue) = None
            THEN /\ SelReturn("input_error", DefaultChoice(max_choice))
                 /\ UNCHANGED <<query, all_results, new_results, metadata, user_input, idx>>
            ELSE /\ choice_str' = Head(result_queue)
                 /\ result_queue' = <<>>
                 /\ pc' = "validate"
                 /\ UNCHANGED <<locals, max_choice, ticks, selLog>>
    /\ UNCHANGED <<inputs, coverVars, replayVars, outerVars, callVars, ioVars, prompts, calls, exc>>

\* a variant of Validate that answers an invalid input with the default
\* choice instead of asking again
ValidateGivesUp ==
    /\ pc = "validate"
    /\ IF choice_str = <<"0", "0">>
       THEN SelReturn("value", -1)
       ELSE IF IsNumeral(choice_str) /\ ParseInt(choice_str) <= max_choice
            THEN SelReturn("value", ParseInt(choice_str))
            ELSE SelReturn("invalid", DefaultChoice(max_choice))
    /\ UNCHANGED <<inputs, coverVars, replayVars, outerVars, query, all_results, new_results, metadata, user_input, idx,
                   callVars, ioVars, prompts, calls, exc>>

\* a variant of Validate that accepts one index past the end of the list
ValidateAcceptsOneMore ==
    /\ pc = "validate"
    /\ IF choice_str = <<"0", "0">>
       THEN /\ SelReturn("value", -1)
            /\ UNCHANGED <<query, all_results, new_results, metadata, user_input, idx>>
       ELSE IF IsNumeral(choice_str) /\ ParseInt(choice_str) <= max_choice + 1
            THEN /\ SelReturn("value", ParseInt(choice_str))
                 /\ UNCHANGED <<query, all_results, new_results, metadata, user_input, idx>>
            ELSE /\ pc' = "reprompt"
                 /\ UNCHANGED <<locals, selVars, selLog>>
    /\ UNCHANGED <<inputs, coverVars, replayVars, outerVars, callVars, ioVars, prompts, calls, exc>>

\* the body of `while True` up to the re-prompt
Validate ==
    /\ pc = "validate"
    /\ IF choice_str = <<"0", "0">>
       THEN /\ SelReturn("value", -1)
            /\ UNCHANGED <<query, all_results, new_results, metadata, user_input, idx>>
       ELSE IF IsNumeral(choice_str) /\ ParseInt(choice_str) <= max_choice
            THEN /\ SelReturn("value", ParseInt(choice_str))
                 /\ UNCHANGED <<query, all_results, new_results, metadata, user_input, idx>>
            ELSE /\ pc' = "reprompt"
                 /\ UNCHANGED <<locals, selVars, selLog>>
    /\ UNCHANGED <<inputs, coverVars, replayVars, outerVars, callVars, ioVars, prompts, calls, exc>>

\* the human types a line.  The thread that has waited longest in input()
\* gets it: a reader thread, whose queue is read only while its own
\* get_user_choice is still before get_nowait, or else the main thread
HumanTypes(line) ==
    /\ stdin = "open"
    /\ pc \in {"countdown", "get_nowait", "reprompt", "manual_prompt"}
    /\ IF readers # <<>>
       THEN /\ readers' = Tail(readers)
            /\ result_queue' = IF Head(readers) = Len(selLog) /\ pc \in {"countdown", "get_nowait"}
                               THEN <<Strip(line)>>
                               ELSE result_queue
            /\ UNCHANGED <<pc, locals, choice_str, prompts>>
       ELSE /\ pc \in {"reprompt", "manual_prompt"}
            /\ IF pc = "reprompt"
               THEN /\ choice_str' = Strip(line)
                    /\ pc' = "validate"
                    /\ UNCHANGED <<locals, prompts>>
               ELSE /\ user_input' = Strip(line)
                    /\ pc' = "manual_got"
                    /\ UNCHANGED <<query, all_results, new_results, metadata, choice, idx,
                                   choice_str, prompts>>
            /\ UNCHANGED <<readers, result_queue>>
    /\ UNCHANGED <<inputs, coverVars, replayVars, outerVars, callVars, max_choice, ticks, stdin, selLog, calls, exc>>

\* input() on a closed stdin raises EOFError: a reader thread catches it and
\* puts None, the main thread does not catch it
StdinEOF ==
    /\ stdin = "eof"
    /\ pc \in {"countdown", "get_nowait", "reprompt", "manual_prompt"}
    /\ IF readers # <<>>
       THEN /\ readers' = Tail(readers)
            /\ result_queue' = IF Head(readers) = Len(selLog) /\ pc \in {"countdown", "get_nowait"}
                               THEN <<None>>
                               ELSE result_queue
            /\ UNCHANGED <<pc, locals, callVars, max_choice, ticks, choice_str, exc>>
       ELSE /\ pc \in {"reprompt", "manual_prompt"}
            /\ Raise("EOFError", pc)
            /\ UNCHANGED readers
    /\ UNCHANGED <<inputs, coverVars, replayVars, outerVars, stdin, histVars>>

\* Ctrl-C while the main thread waits: only the re-prompt catches it
Interrupt ==
    /\ pc \in {"countdown", "reprompt", "manual_prompt"}
    /\ IF pc = "reprompt"
       THEN /\ SelReturn("interrupt", DefaultChoice(max_choice))
            /\ UNCHANGED <<query, all_results, new_results, metadata, user_input, idx,
                           callVars, exc>>
       ELSE /\ Raise("KeyboardInterrupt", pc)
            /\ UNCHANGED selLog
    /\ UNCHANGED <<inputs, coverVars, replayVars, outerVars, ioVars, prompts, calls>>

(***************************************************************************)
(* process_track after the decision point.                                 *)
(***************************************************************************)
\* a variant of Pick that stamps the chosen candidate as a fallback record
PickRetagged(r) ==
    /\ metadata' = [r EXCEPT !.source = "YouTube Fallback"]
    /\ pc' = "finalized"
    /\ UNCHANGED <<callVars, prompts, calls>>

\* metadata = <a candidate>, the end of the `if not metadata:` block
Pick(r) ==
    /\ metadata' = r
    /\ pc' = "finalized"
    /\ UNCHANGED <<callVars, prompts, calls>>

\* user_input = input("\nEnter metadata link or search query: ")
ToPrompt ==
    /\ pc' = "manual_prompt"
    /\ prompts' = prompts + 1
    /\ UNCHANGED <<metadata, callVars, calls>>

\* a variant of HandleChoice that takes the first candidate on `00`
HandleChoiceTakesFirst ==
    /\ pc = "chosen"
    /\ CASE selLog[Len(selLog)].site = "first" ->
               IF choice = 0 THEN ToPrompt
               ELSE Pick(all_results[IF choice = -1 THEN 1 ELSE choice])
         [] selLog[Len(selLog)].site = "none" ->
               IF impl = "ytmsd" /\ choice = 0
               THEN ToPrompt
               ELSE BeginFallback("none") /\ UNCHANGED <<metadata, prompts>>
         [] selLog[Len(selLog)].site = "nested" ->
               IF choice \in {-1, 0}
               THEN BeginFallback("nested") /\ UNCHANGED <<metadata, prompts>>
               ELSE Pick(new_results[choice])
    /\ UNCHANGED <<inputs, coverVars, replayVars, outerVars, query, all_results, new_results, choice, user_input, idx,
                   selVars, ioVars, selLog, exc>>

\* the branches on `choice`: after the first selector over candidates, after
\* the selector entered with no candidates, after the nested selector
HandleChoice ==
    /\ pc = "chosen"
    /\ CASE selLog[Len(selLog)].site = "first" ->
               IF choice = -1
               THEN BeginFallback("choice_00") /\ UNCHANGED <<metadata, prompts>>
               ELSE IF choice = 0 THEN ToPrompt ELSE Pick(all_results[choice])
         [] selLog[Len(selLog)].site = "none" ->
               IF impl = "ytmsd" /\ choice = 0
               THEN ToPrompt
               ELSE BeginFallback("none") /\ UNCHANGED <<metadata, prompts>>
         [] selLog[Len(selLog)].site = "nested" ->
               IF choice \in {-1, 0}
               THEN BeginFallback("nested") /\ UNCHANGED <<metadata, prompts>>
               ELSE Pick(new_results[choice])
    /\ UNCHANGED <<inputs, coverVars, replayVars, outerVars, query, all_results, new_results, choice, user_input, idx,
                   selVars, ioVars, selLog, exc>>

\* a variant of ManualGot that asks again when the human typed nothing
ManualGotAsksAgain ==
    /\ pc = "manual_got"
    /\ IF ~Truthy(user_input)
       THEN /\ pc' = "manual_prompt"
            /\ prompts' = prompts + 1
            /\ UNCHANGED <<new_results, idx, callVars, calls>>
       ELSE /\ pc' = IF StartsWith(user_input, sHttp) \/ StartsWith(user_input, sHttps)
                     THEN "link_loop"
                     ELSE "requery_loop"
            /\ new_results' = <<>>
            /\ idx' = 1
            /\ UNCHANGED <<callVars, calls, prompts>>
    /\ UNCHANGED <<inputs, coverVars, replayVars, outerVars, query, all_results, metadata, choice, user_input,
                   selVars, ioVars, selLog, exc>>

\* the branches on what the human typed at the prompt
ManualGot ==
    /\ pc = "manual_got"
    /\ IF ~Truthy(user_input)
       THEN /\ BeginFallback("manual_empty")
            /\ UNCHANGED <<new_results, idx, prompts>>
       ELSE /\ pc' = IF StartsWith(user_input, sHttp) \/ StartsWith(user_input, sHttps)
                     THEN "link_loop"
                     ELSE "requery_loop"
            /\ new_results' = <<>>
            /\ idx' = 1
            /\ UNCHANGED <<callVars, calls, prompts>>
    /\ UNCHANGED <<inputs, coverVars, replayVars, outerVars, query, all_results, metadata, choice, user_input,
                   selVars, ioVars, selLog, exc>>

\* the new candidates are ranked; the key of this sort raises on the first
\* element it is applied to
Rank2 ==
    /\ pc = "rank2"
    /\ IF new_results # <<>>
       THEN /\ Raise(NestedKeyExc(selLog[1].site, new_results), "rank2")
            /\ UNCHANGED calls
       ELSE /\ BeginFallback("requery_miss")
            /\ UNCHANGED <<locals, selVars, exc>>
    /\ UNCHANGED <<inputs, coverVars, replayVars, outerVars, ioVars, selLog, prompts>>

Next ==
    \/ Start
    \/ Step1
    \/ Step1Ret
    \/ Step2
    \/ DirectedRet
    \/ FallbackRet
    \/ Step3
    \/ FetchLoop
    \/ FetchRet
    \/ Step4
    \/ SearchLoop
    \/ SearchRet
    \/ Attempt
    \/ Rank
    \/ Tick
    \/ GetNowait
    \/ Validate
    \/ \E line \in Lines : HumanTypes(line)
    \/ StdinEOF
    \/ Interrupt
    \/ HandleChoice
    \/ ManualGot
    \/ Rank2

Spec == Init /\ [][Next]_vars

(***************************************************************************)
(* The same track resolved twice, nothing typed: the second run gets, for  *)
(* each provider operation, the responses the first run got.               *)
(***************************************************************************)
InitTwice == Init /\ stdin = "open" /\ config # AllOn /\ metadata_url \in {None, UrlMb}

\* the responses of the operation that has just returned are noted
RecordResponses ==
    /\ run = 1
    /\ pc \notin {"call", "raised"}
    /\ Len(trace) < Len(calls)
    /\ trace' = Append(trace, callLog)
    /\ UNCHANGED <<inputs, pc, locals, callVars, selVars, ioVars, histVars, exc,
                   coverVars, outerVars, run, first>>

\* an attempt of the second run: the upstream responds as it did to the same
\* attempt of the first run
Replay ==
    /\ run = 2
    /\ Len(calls) <= Len(trace)
    /\ Attempt
    /\ pc' # "raised"
    /\ Len(callLog') <= Len(trace[Len(calls)])
    /\ callLog' = SubSeq(trace[Len(calls)], 1, Len(callLog'))
    /\ pc' # "call" => callLog' = trace[Len(calls)]

\* process_track is called again for the same entry
Restart ==
    /\ run = 1
    /\ pc = "finalized"
    /\ Len(trace) = Len(calls)
    /\ run' = 2
    /\ first' = [rec |-> metadata, calls |-> calls]
    /\ pc' = "start"
    /\ query' = <<>>
    /\ all_results' = <<>>
    /\ new_results' = <<>>
    /\ metadata' = NoMeta
    /\ choice' = Unbound
    /\ user_input' = <<>>
    /\ idx' = 0
    /\ call' = IdleCall
    /\ callLog' = <<>>
    /\ retval' = NoRet
    /\ max_choice' = 0
    /\ ticks' = 0
    /\ result_queue' = <<>>
    /\ choice_str' = None
    /\ readers' = <<>>
    /\ selLog' = <<>>
    /\ prompts' = 0
    /\ calls' = <<>>
    /\ UNCHANGED <<inputs, stdin, exc, coverVars, outerVars, trace>>

\* no returned operation of the first run is still to be noted
Recorded == run = 1 => Len(trace) = Len(calls)

NextTwice ==
    \/ Recorded /\ Start
    \/ Recorded /\ Step1
    \/ Recorded /\ Step1Ret
    \/ Recorded /\ Step2
    \/ Recorded /\ DirectedRet
    \/ Recorded /\ FallbackRet
    \/ Recorded /\ Step3
    \/ Recorded /\ FetchLoop
    \/ Recorded /\ FetchRet
    \/ Recorded /\ Step4
    \/ Recorded /\ SearchLoop
    \/ Recorded /\ SearchRet
    \/ Recorded /\ Rank
    \/ Recorded /\ Tick
    \/ Recorded /\ GetNowait
    \/ Recorded /\ HandleChoice
    \/ run = 1 /\ Attempt
    \/ RecordResponses
    \/ Replay
    \/ Restart

SpecTwice == InitTwice /\ [][NextTwice]_vars


(***************************************************************************)
(* A provider operation on its own: every search, get_metadata and         *)
(* get_cover_url of both scripts, called once.                             *)
(***************************************************************************)
sMbid == <<"r","1">>

ProviderCalls ==
    {NewCall("search", p, sAb \o <<" ">> \o sCd, "done") : p \in {"ytm", "mb", "it"}}
    \cup {NewCall("fetch", p, u, "done") : p \in {"ytm", "mb", "it"}, u \in {UrlMb, UrlIt}}
    \cup {NewCall("cover", "mb", m, "done") : m \in {sMbid, <<>>}}

InitProvider ==
    /\ impl \in {"ytmsd", "ytmscp"}
    /\ config = AllOn
    /\ is_youtube_music = FALSE
    /\ meta_source = None
    /\ metadata_url = None
    /\ entry = EntryTopic
    /\ pc = "call"
    /\ InitLocals
    /\ call \in ProviderCalls
    /\ InitCall
    /\ InitSelector
    /\ readers = <<>>
    /\ stdin = "open"
    /\ selLog = <<>>
    /\ prompts = 0
    /\ calls = <<>>
    /\ exc = [type |-> "none", at |-> "none"]
    /\ IdleCover
    /\ IdleReplay
    /\ IdleOuter

NextProvider == Attempt

SpecProvider == InitProvider /\ [][NextProvider]_vars

(***************************************************************************)
(* apply_metadata on its own: the treatment of the cover file.             *)
(***************************************************************************)
sYtimg == <<"y","t","i","m","g",".","c","o","m">>

sLh3 == <<"l","h","3",".","g","o","o","g","l","e","u","s","e","r",
          "c","o","n","t","e","n","t",".","c","o","m">>

\* the thumbnail values apply_metadata is called with
CoverUrls ==
    LET yt == sHttps \o <<"i", ".">> \o sYtimg
        lh == sHttps \o sLh3
        dims == <<"=","w","6","0","-","h","6","0">>
    IN  {None, <<>>,
         yt \o <<"/","v","i","/","a","/","0",".","j","p","g">>,
         yt \o <<"/","v","i","/","w","/","h","q",".","j","p","g">>,
         lh \o <<"/","a">> \o dims,
         lh \o <<"/","a">>,
         lh \o <<"/","p","/","i",".">> \o sYtimg \o <<"/","a">> \o dims,
         lh \o <<"/","p","/","i",".">> \o sYtimg \o <<"/","a">>,
         sHttps \o <<"m","z","s","t","a","t","i","c",".","c","o","m",
                     "/","6","0","0","x","6","0","0",".","j","p","g">>}

\* the pattern of a square YouTube Music thumbnail
HighResPattern(url) ==
    Contains(url, sLh3) /\ Contains(url, <<"w">>) /\ Contains(url, <<"h">>)

\* metadata.get('thumbnail', '') of the filtered metadata
FilteredThumbnail(v) == IF Truthy(v) THEN v ELSE <<>>

\* the condition of the crop branch
NeedsCrop(im, cover_url) ==
    IF im = "ytmsd"
    THEN Contains(cover_url, sYtimg)
    ELSE /\ Contains(cover_url, sYtimg)
         /\ ~(/\ Contains(cover_url, sLh3)
              /\ Contains(cover_url, <<"w">>)
              /\ Contains(cover_url, <<"h">>))

InitCover ==
    /\ impl \in {"ytmsd", "ytmscp"}
    /\ config = AllOn
    /\ is_youtube_music = FALSE
    /\ meta_source = None
    /\ metadata_url = None
    /\ entry = EntryTopic
    /\ pc = "done"
    /\ InitLocals
    /\ call = IdleCall
    /\ InitCall
    /\ InitSelector
    /\ readers = <<>>
    /\ stdin = "open"
    /\ selLog = <<>>
    /\ prompts = 0
    /\ calls = <<>>
    /\ exc = [type |-> "none", at |-> "none"]
    /\ thumbnail \in CoverUrls
    /\ cover_path \in {"none", "missing", "present"}
    /\ apc = "entry"
    /\ use_original = TRUE
    /\ filter_complex = "none"
    /\ cover_in = "none"
    /\ IdleReplay
    /\ IdleOuter

\* apply_metadata up to the ffmpeg run on the cover, or up to the final
\* command when the cover is not cropped
apply_metadata ==
    /\ apc = "entry"
    /\ IF cover_path = "present"
       THEN IF NeedsCrop(impl, FilteredThumbnail(thumbnail))
            THEN /\ apc' = "crop"
                 /\ filter_complex' = "crop_scale"
                 /\ UNCHANGED cover_in
            ELSE /\ apc' = "embed"
                 /\ cover_in' = "original"
                 /\ UNCHANGED filter_complex
       ELSE /\ apc' = "embed"
            /\ UNCHANGED <<filter_complex, cover_in>>
    /\ use_original' = TRUE
    /\ UNCHANGED <<inputs, pc, locals, callVars, selVars, ioVars, histVars, exc, replayVars, outerVars,
                   thumbnail, cover_path>>

\* the ffmpeg run on the cover ends: the cropped file is used, or, when the
\* run raised, the original one
CropRet ==
    /\ apc = "crop"
    /\ \E ok \in BOOLEAN :
          /\ use_original' = ~ok
          /\ cover_in' = IF ok THEN "fixed" ELSE "original"
    /\ apc' = "embed"
    /\ UNCHANGED <<inputs, pc, locals, callVars, selVars, ioVars, histVars, exc, replayVars, outerVars,
                   thumbnail, cover_path, filter_complex>>

\* the final ffmpeg run ends with a return code
EmbedRet ==
    /\ apc = "embed"
    /\ apc' \in {"applied", "failed"}
    /\ UNCHANGED <<inputs, pc, locals, callVars, selVars, ioVars, histVars, exc, replayVars, outerVars,
                   thumbnail, cover_path, use_original, filter_complex, cover_in>>

NextCover ==
    \/ apply_metadata
    \/ CropRet
    \/ EmbedRet

SpecCover == InitCover /\ [][NextCover]_vars

(***************************************************************************)
(* ytmscp_cli.py: process_track from the cover lookup to apply_metadata.   *)
(***************************************************************************)
\* str.replace(old, new)
RECURSIVE ReplaceFrom(_, _, _, _)
ReplaceFrom(s, i, old, new) ==
    IF i > Len(s)
    THEN <<>>
    ELSE IF MatchesAt(s, i, old)
         THEN new \o ReplaceFrom(s, i + Len(old), old, new)
         ELSE <<s[i]>> \o ReplaceFrom(s, i + 1, old, new)

Replace(s, old, new) == ReplaceFrom(s, 1, old, new)

sDefaultJpg == <<"d","e","f","a","u","l","t",".","j","p","g">>

sWebp == <<".","w","e","b","p">>

sJpg == <<".","j","p","g">>

\* the URLs tried for the entry's thumbnail
ThumbnailUrls(base_url) ==
    IF Contains(base_url, sYtimg)
    THEN <<Replace(Replace(base_url, sDefaultJpg,
                           <<"m","a","x","r","e","s">> \o sDefaultJpg), sWebp, sJpg),
           Replace(Replace(base_url, sDefaultJpg, <<"h","q">> \o sDefaultJpg), sWebp, sJpg),
           Replace(base_url, sWebp, sJpg)>>
    ELSE <<base_url>>

\* entry.get('thumbnail') of the tracks
EntryThumbnails ==
    LET yt == sHttps \o <<"i", ".">> \o sYtimg \o <<"/">>
    IN  {None,
         yt \o sDefaultJpg,
         yt \o <<"h","q">> \o sWebp,
         sHttps \o <<"x","/","c">> \o sJpg}

\* the finalized records: provenance and metadata.get('thumbnail').  A
\* MusicBrainz record has no thumbnail; the fallback record has the entry's
Finalized ==
    LET lh == sHttps \o sLh3 \o <<"/","a","=","w","6","0","-","h","6","0">>
        mz == sHttps \o <<"m","z","/","6","0","0","x","6","0","0">> \o sJpg
    IN  {[source |-> "YouTube Music", thumbnail |-> u, entry_thumbnail |-> e] :
             u \in {None, lh} \cup (EntryThumbnails \ {None}), e \in EntryThumbnails}
        \cup {[source |-> "iTunes", thumbnail |-> u, entry_thumbnail |-> e] :
             u \in {<<>>, mz}, e \in EntryThumbnails}
        \cup {[source |-> "MusicBrainz", thumbnail |-> Absent, entry_thumbnail |-> e] :
             e \in EntryThumbnails}
        \cup {[source |-> "YouTube Fallback", thumbnail |-> e, entry_thumbnail |-> e] :
             e \in EntryThumbnails}

InitPick ==
    /\ impl = "ytmscp"
    /\ config = AllOn
    /\ is_youtube_music = FALSE
    /\ meta_source = None
    /\ metadata_url = None
    /\ entry = EntryTopic
    /\ pc = "finalized"
    /\ query = <<>>
    /\ all_results = <<>>
    /\ new_results = <<>>
    /\ choice = Unbound
    /\ user_input = <<>>
    /\ idx = 0
    /\ call = IdleCall
    /\ InitCall
    /\ InitSelector
    /\ readers = <<>>
    /\ stdin = "open"
    /\ selLog = <<>>
    /\ prompts = 0
    /\ calls = <<>>
    /\ exc = [type |-> "none", at |-> "none"]
    /\ IdleReplay
    /\ IdleBatch
    /\ IdleTools
    /\ \E f \in Finalized :
          /\ metadata = [title |-> sCd, artist |-> sAb, source |-> f.source]
          /\ thumbnail = f.thumbnail
          /\ entry_thumbnail = f.entry_thumbnail
    /\ source_instance \in BOOLEAN
    /\ cover_src = None
    /\ cover_path = "none"
    /\ apc = "provider_cover"
    /\ use_original = TRUE
    /\ filter_complex = "none"
    /\ cover_in = "none"

\* what get_cover_url can return: metadata.get('thumbnail'), or for
\* MusicBrainz the Cover Art Archive URL when the HEAD request answers 200
GetCoverUrl(source, thumb) ==
    IF source = "MusicBrainz"
    THEN {None, CoverUrl(sMbid)}
    ELSE {Get(thumb, None)}

\* the provider's cover: looked up and downloaded when an enabled provider
\* matches the record's provenance
ProviderCover ==
    /\ apc = "provider_cover"
    /\ IF source_instance /\ metadata.source # "YouTube Fallback"
       THEN \E u \in GetCoverUrl(metadata.source, thumbnail) :
               /\ cover_src' = u
               /\ IF Truthy(u)
                  THEN \E downloaded \in BOOLEAN :
                          cover_path' = IF downloaded THEN "present" ELSE "none"
                  ELSE UNCHANGED cover_path
       ELSE UNCHANGED <<cover_src, cover_path>>
    /\ apc' = "entry_thumbnail"
    /\ UNCHANGED <<notCover, thumbnail, use_original, filter_complex, cover_in,
                   entry_thumbnail, source_instance>>

\* the fallback to the entry's thumbnail: the URLs are tried in turn until
\* one is accessible and downloaded; then apply_metadata is called
EntryThumbnail ==
    /\ apc = "entry_thumbnail"
    /\ IF cover_path = "none" /\ Truthy(entry_thumbnail)
       THEN LET urls == ThumbnailUrls(entry_thumbnail)
            IN  \E k \in 0..Len(urls) :
                   IF k > 0
                   THEN /\ cover_src' = urls[k]
                        /\ cover_path' = "present"
                   ELSE /\ cover_src' \in {cover_src} \cup {urls[i] : i \in 1..Len(urls)}
                        /\ cover_path' = "none"
       ELSE UNCHANGED <<cover_src, cover_path>>
    /\ apc' = "entry"
    /\ UNCHANGED <<notCover, thumbnail, use_original, filter_complex, cover_in,
                   entry_thumbnail, source_instance>>

NextPick ==
    \/ ProviderCover
    \/ EntryThumbnail
    \/ apply_metadata
    \/ CropRet
    \/ EmbedRet

SpecPick == InitPick /\ [][NextPick]_vars

(***************************************************************************)
(* YouTubeMusicSource._select_thumbnail, called once.                      *)
(***************************************************************************)
MaxThumbs == 2

\* the 'url' values of the thumbnails of a listing
ThumbUrls ==
    LET lh == sHttps \o sLh3 \o <<"/">>
    IN  {Absent,
         lh \o <<"a","=","w","6","0","-","h","6","0">>,
         lh \o <<"b","=","w","9","0","-","h","9","0">>,
         lh \o <<"w","a">>,
         lh \o <<"a">>,
         sHttps \o <<"i", ".">> \o sYtimg \o <<"/","a">> \o sJpg}

InitThumb ==
    /\ impl \in {"ytmsd", "ytmscp"}
    /\ IdleTrack
    /\ IdleBatch
    /\ IdlePick
    /\ IdleConfig
    /\ IdleDownload
    /\ thumbnails \in UNION {[1..n -> [url : ThumbUrls]] : n \in 0..MaxThumbs}
    /\ default_thumbnail \in {None, sHttps \o <<"i", ".">> \o sYtimg \o <<"/","d">> \o sJpg}
    /\ selected = None
    /\ tpc = "call"

\* the loop over the thumbnails: the URL of the first one the test accepts,
\* None when it accepts none
RECURSIVE FirstAccepted(_)
FirstAccepted(thumbs) ==
    IF thumbs = <<>>
    THEN None
    ELSE IF HighResPattern(Get(Head(thumbs).url, <<>>))
         THEN Get(Head(thumbs).url, <<>>)
         ELSE FirstAccepted(Tail(thumbs))

select_thumbnail(thumbs, default) ==
    IF FirstAccepted(thumbs) # None
    THEN FirstAccepted(thumbs)
    ELSE IF Truthy(default) THEN default ELSE None

SelectThumbnail ==
    /\ tpc = "call"
    /\ selected' = select_thumbnail(thumbnails, default_thumbnail)
    /\ tpc' = "returned"
    /\ UNCHANGED <<notThumb, thumbnails, default_thumbnail>>

NextThumb == SelectThumbnail

SpecThumb == InitThumb /\ [][NextThumb]_vars

(***************************************************************************)
(* main: the loop over the task list.  process_track is taken as a whole:  *)
(* it returns, or an exception of class Exception leaves it.               *)
(***************************************************************************)
MaxTasks == 3

MaxEntries == 2

\* the task lists: per task, whether download_url starts with http:// or
\* https://
TaskLists ==
    UNION {[1..n -> [valid : BOOLEAN]] : n \in 1..MaxTasks}

InitBatch ==
    /\ impl \in {"ytmsd", "ytmscp"}
    /\ IdleTrack
    /\ IdlePick
    /\ IdleTools
    /\ tasks \in TaskLists
    /\ task_idx = 0
    /\ mpc = "next_task"
    /\ fetch_attempt = 0
    /\ entries = 0
    /\ entry_idx = 0
    /\ attempted = <<>>

\* the attempts of the entry fetch: three player clients in ytmsd.py, a
\* single run of yt-dlp in ytmscp_cli.py
FetchAttempts(im) == IF im = "ytmsd" THEN 3 ELSE 1

\* `for task_idx, (...) in enumerate(tasks, 1)`, the URL check and the start
\* of the entry fetch
NextTask ==
    /\ mpc = "next_task"
    /\ IF task_idx = Len(tasks)
       THEN /\ mpc' = "processed"
            /\ UNCHANGED <<task_idx, fetch_attempt, attempted>>
       ELSE /\ task_idx' = task_idx + 1
            /\ IF tasks[task_idx + 1].valid
               THEN /\ mpc' = "fetch"
                    /\ fetch_attempt' = 1
                    /\ attempted' = Append(attempted, task_idx + 1)
               ELSE /\ mpc' = "next_task"
                    /\ UNCHANGED <<fetch_attempt, attempted>>
    /\ entries' = 0
    /\ entry_idx' = 0
    /\ UNCHANGED <<notBatch, tasks>>

\* one run of yt-dlp for the task's entries: entries come back, or the run
\* fails (non-zero exit, no entry, timeout, another exception).  ytmsd.py
\* tries the next player client and skips the task after the third failure;
\* ytmscp_cli.py skips the task, through `continue` or the handler of the
\* task's try block
FetchEntries ==
    /\ mpc = "fetch"
    /\ \E n \in 0..MaxEntries :
          IF n > 0
          THEN /\ entries' = n
               /\ entry_idx' = 1
               /\ mpc' = "tracks"
               /\ UNCHANGED fetch_attempt
          ELSE /\ IF fetch_attempt < FetchAttempts(impl)
                  THEN /\ fetch_attempt' = fetch_attempt + 1
                       /\ mpc' = "fetch"
                  ELSE /\ mpc' = "next_task"
                       /\ UNCHANGED fetch_attempt
               /\ UNCHANGED <<entries, entry_idx>>
    /\ UNCHANGED <<notBatch, tasks, task_idx, attempted>>

\* `for entry in entries: process_track(...)`.  In ytmscp_cli.py the call is
\* inside the task's `try ... except Exception: continue`; in ytmsd.py it is
\* inside main's try block only, whose handler ends in sys.exit(1)
ProcessEntry ==
    /\ mpc = "tracks"
    /\ \E raised \in BOOLEAN :
          IF raised
          THEN /\ mpc' = IF impl = "ytmsd" THEN "exit1" ELSE "next_task"
               /\ UNCHANGED entry_idx
          ELSE IF entry_idx < entries
               THEN /\ entry_idx' = entry_idx + 1
                    /\ mpc' = "tracks"
               ELSE /\ mpc' = "next_task"
                    /\ UNCHANGED entry_idx
    /\ UNCHANGED <<notBatch, tasks, task_idx, fetch_attempt, entries, attempted>>

NextBatch ==
    \/ NextTask
    \/ FetchEntries
    \/ ProcessEntry

SpecBatch == InitBatch /\ [][NextBatch]_vars

(***************************************************************************)
(* main's start: load_config, get_enabled_sources, and the timeout the     *)
(* provider calls of the run are made with.  A JSON value is a record      *)
(* with its kind; a flag of the 'sources' object is "true", "false" or     *)
(* "absent".                                                               *)
(***************************************************************************)
DEFAULT_CONFIG ==
    [kind |-> "dict",
     sources |-> [kind |-> "dict",
                  flags |-> [p \in {"ytm", "mb", "it"} |->
                                IF p = "it" THEN "false" ELSE "true"]],
     has_timeout |-> TRUE,
     timeout |-> 15]

\* the values a 'sources' key of the file can have
FileSources ==
    {[kind |-> "absent"], [kind |-> "list"]} \cup
    {[kind |-> "dict", flags |-> f] :
        f \in [{"ytm", "mb", "it"} -> {"true", "false", "absent"}]}

FileTimeouts == {5, 30}

\* the values json.load can return
FileValues ==
    {[kind |-> "list"]} \cup
    {[kind |-> "dict", sources |-> s, has_timeout |-> FALSE, timeout |-> 0] :
        s \in FileSources} \cup
    {[kind |-> "dict", sources |-> s, has_timeout |-> TRUE, timeout |-> t] :
        s \in FileSources, t \in FileTimeouts}

ConfigFiles ==
    {[kind |-> "missing"], [kind |-> "unreadable"], [kind |-> "invalid_json"]} \cup
    {[kind |-> "json", value |-> v] : v \in FileValues}

InitConfig ==
    /\ impl \in {"ytmsd", "ytmscp"}
    /\ IdleTrack
    /\ IdleBatch
    /\ IdlePick
    /\ IdleThumb
    /\ IdleDownload
    /\ config_file \in ConfigFiles
    /\ loaded = [kind |-> "none"]
    /\ enabled = <<>>
    /\ used_timeout = 0
    /\ cpc = "load"

\* CONFIG_FILE.exists(), json.load(f) returned as it is, the defaults after
\* an exception of open or json.load
load_config(file) ==
    IF file.kind = "json" THEN file.value ELSE DEFAULT_CONFIG

\* config['sources'] or its .get raises: the value is not a dict, has no
\* 'sources' key, or 'sources' is not a dict
SourcesRaises(cfg) ==
    \/ cfg.kind # "dict"
    \/ cfg.sources.kind # "dict"

\* config['sources'].get(name, False) for each name of source_map
SourceFlags(cfg) == [p \in {"ytm", "mb", "it"} |-> cfg.sources.flags[p] = "true"]

\* the calls of a run that take a timeout
CallOps == {"search", "fetch", "cover", "fallback"}

\* timeout=DEFAULT_CONFIG['timeout'] of every provider call
CallTimeout(op) == DEFAULT_CONFIG.timeout

LoadConfig ==
    /\ cpc = "load"
    /\ loaded' = load_config(config_file)
    /\ cpc' = "sources"
    /\ UNCHANGED <<notConfig, config_file, enabled, used_timeout>>

GetEnabledSources ==
    /\ cpc = "sources"
    /\ IF SourcesRaises(loaded)
       THEN /\ cpc' = "raised"
            /\ UNCHANGED enabled
       ELSE /\ enabled' = get_enabled_sources(SourceFlags(loaded))
            /\ cpc' = "run"
    /\ UNCHANGED <<notConfig, config_file, loaded, used_timeout>>

\* a provider of the enabled list is called, or the fallback's yt-dlp
ProviderCall ==
    /\ cpc = "run"
    /\ \E op \in CallOps :
          /\ op # "fallback" => enabled # <<>>
          /\ used_timeout' = CallTimeout(op)
          /\ cpc' = op
    /\ UNCHANGED <<notConfig, config_file, loaded, enabled>>

CallReturn ==
    /\ cpc \in CallOps
    /\ cpc' = "run"
    /\ UNCHANGED <<notConfig, config_file, loaded, enabled, used_timeout>>

NextConfig ==
    \/ LoadConfig
    \/ GetEnabledSources
    \/ ProviderCall
    \/ CallReturn

SpecConfig == InitConfig /\ [][NextConfig]_vars

(***************************************************************************)
(* download_audio.  The command is the list of its arguments, one string   *)
(* each; runs is the list of the commands subprocess.run was given.        *)
(***************************************************************************)
output_path == "out.mp3"

url == "https://youtu.be/a"

\* f'youtube:player_client={...}'
PlayerClient(music) ==
    IF music
    THEN "youtube:player_client=web_music,android"
    ELSE "youtube:player_client=android"

BaseCmd(music) ==
    <<"yt-dlp", "-x", "--audio-format", "mp3", "--audio-quality", "0",
      "-f", "bestaudio/best", "--extract-audio", "--no-playlist",
      "--no-warnings", "--prefer-free-formats",
      "--extractor-args", PlayerClient(music),
      "-o", output_path, url>>

\* list.insert(-2, x): x goes before the element second from the end
InsertBeforeLastTwo(c, x) ==
    SubSeq(c, 1, Len(c) - 2) \o <<x>> \o SubSeq(c, Len(c) - 1, Len(c))

\* cmd.index(x): the first position of x
Index(c, x) == SetMin({i \in 1..Len(c) : c[i] = x})

\* the command after the assignment of the retry branch
RetryCmd(im, c) ==
    IF im = "ytmsd"
    THEN [c EXCEPT ![Index(c, "--extractor-args") + 1] = "youtube:player_client=ios"]
    ELSE [c EXCEPT ![Len(c) - 2] = "--extractor-args youtube:player_client=ios"]

DownloadRetries(im) == IF im = "ytmsd" THEN 3 ELSE 2

InitDownload ==
    /\ impl \in {"ytmsd", "ytmscp"}
    /\ IdleTrack
    /\ IdleBatch
    /\ IdlePick
    /\ IdleThumb
    /\ IdleConfig
    /\ cmd = <<>>
    /\ download_attempt = 0
    /\ debug \in BOOLEAN
    /\ runs = <<>>
    /\ dpc = "build"

BuildCmd ==
    /\ dpc = "build"
    /\ \E music \in BOOLEAN :
          cmd' = IF impl = "ytmsd" /\ debug
                 THEN InsertBeforeLastTwo(BaseCmd(music), "--verbose")
                 ELSE BaseCmd(music)
    /\ dpc' = "attempt"
    /\ UNCHANGED <<notDownload, download_attempt, debug, runs>>

\* one pass of `for attempt in range(max_retries)`
DownloadAttempt ==
    /\ dpc = "attempt"
    /\ runs' = Append(runs, cmd)
    /\ \E outcome \in {"ok", "nonzero", "timeout", "error"} :
          IF outcome = "ok"
          THEN /\ dpc' = "true"
               /\ UNCHANGED <<cmd, download_attempt>>
          ELSE /\ cmd' = IF outcome = "nonzero" /\
                            download_attempt < DownloadRetries(impl) - 1
                         THEN RetryCmd(impl, cmd)
                         ELSE cmd
               /\ download_attempt' = download_attempt + 1
               /\ dpc' = IF download_attempt + 1 < DownloadRetries(impl)
                         THEN (IF outcome = "nonzero" THEN "attempt" ELSE "sleep")
                         ELSE "false"
    /\ UNCHANGED <<notDownload, debug>>

\* time.sleep(2) of the two except branches
Sleep ==
    /\ dpc = "sleep"
    /\ dpc' = "attempt"
    /\ UNCHANGED <<notDownload, cmd, download_attempt, debug, runs>>

NextDownload ==
    \/ BuildCmd
    \/ DownloadAttempt
    \/ Sleep

SpecDownload == InitDownload /\ [][NextDownload]_vars


(***************************************************************************)
(* Properties.                                                             *)
(***************************************************************************)
sFallback == "YouTube Fallback"

\* the last provider operation started
LastCall == calls[Len(calls)]

\* C1: the record process_track finalizes has a non-empty title and a
\* non-empty artist, whether it comes from a candidate, a fetch or the fallback
C1_FinalizedNonEmpty ==
    pc = "finalized" => Truthy(metadata.title) /\ Truthy(metadata.artist)

\* C2: the resolution phase ends only at the finalization point, and there
\* `metadata` is set to a record
C2_EndsFinalized ==
    pc \in {"finalized", "raised"} => pc = "finalized" /\ metadata # NoMeta

\* C3: nothing a provider answers makes an exception leave the resolution
\* phase: not in the ranking of the merged candidates, not in the ranking of
\* the directed search, not in the fallback
C3_NoProviderAbort ==
    ~(pc = "raised" /\ exc.at \in {"rank", "directed_rank", "fallback"})

\* C4: when an attempt within the budget succeeds, it is the last attempt made
\* and the operation returns that attempt's value
C4_RetrySuccess ==
    pc = "done" =>
        /\ Len(callLog) <= (IF impl = "ytmsd" THEN max_retries ELSE 1)
        /\ \A k \in 1..Len(callLog) :
              callLog[k].ok =>
                  /\ k = Len(callLog)
                  /\ retval = Success(call, Outcome("ok", callLog[k].data)).value

\* C4 happens: timeout, error, then a search that returns candidates
C4_Witness ==
    /\ pc = "done"
    /\ call.op = "search"
    /\ Len(callLog) = 3
    /\ callLog[1].kind = "timeout"
    /\ callLog[2].kind = "error"
    /\ callLog[3].ok
    /\ Len(retval.list) = 2

\* C5: when every attempt fails the operation makes exactly its budget of
\* attempts, raises nothing and returns its miss value: the empty list of a
\* search without hits, the None of a fetch or cover probe
C5_RetryExhaustion ==
    /\ pc \in {"call", "done"}
    /\ exc.type = "none"
    /\ (pc = "done" /\ callLog # <<>> /\ \A k \in 1..Len(callLog) : ~callLog[k].ok) =>
          /\ Len(callLog) = (IF impl = "ytmsd" THEN max_retries ELSE 1)
          /\ retval.list = <<>>
          /\ retval.rec = NoMeta
          /\ retval.str = None
          /\ call.op = "search" => retval = Success(call, Outcome("ok", <<>>)).value

\* C5 happens: a fetch whose three attempts time out or fail
C5_Witness ==
    /\ pc = "done"
    /\ call.op = "fetch"
    /\ Len(callLog) = 3
    /\ callLog[1].kind = "timeout"
    /\ callLog[3].kind = "error"
    /\ \A k \in 1..3 : ~callLog[k].ok
    /\ retval.rec = NoMeta

\* C6: when the selector over a non-empty candidate list times out it returns
\* 1, and process_track finalizes the first element of the ranked list
C6_TimeoutPicksTop ==
    (Len(selLog) = 1 /\ selLog[1].site = "first" /\ selLog[1].how = "timeout") =>
        /\ selLog[1].ret = 1
        /\ pc \in {"chosen", "finalized"}
        /\ prompts = 0
        /\ all_results = SortDesc(query, all_results)
        /\ pc = "finalized" => metadata = all_results[1]

\* C6 happens: iTunes answered with two candidates, the ranking put the
\* second in front, the selector timed out and the one in front was finalized
C6_Witness ==
    /\ pc = "finalized"
    /\ Len(selLog) = 1
    /\ selLog[1].site = "first"
    /\ selLog[1].how = "timeout"
    /\ selLog[1].max = 2
    /\ all_results = <<ItRecord(ItUpstream[2]), ItRecord(ItUpstream[1])>>
    /\ RatioGreater(SortKey(query, all_results[1]), SortKey(query, all_results[2]))
    /\ metadata = all_results[1]

\* C7: when the selector entered without candidates times out, process_track
\* goes on to the fallback record as after 00, with no further read of input
C7_EmptyTimeoutFallsBack ==
    (Len(selLog) >= 1 /\ selLog[1].site = "none" /\ selLog[1].how = "timeout") =>
        /\ prompts = 0
        /\ pc \in {"chosen", "call", "fallback_ret", "finalized"}
        /\ pc = "finalized" => metadata.source = sFallback

\* C8: a re-query that found candidates ranks them against the typed text and
\* enters the selector over them
C8_RequeryReentersSelector ==
    [][(pc = "rank2" /\ new_results # <<>>) =>
          /\ pc' = "countdown"
          /\ new_results' = SortDesc(user_input, new_results)
          /\ Len(selLog') = 2
          /\ max_choice' = Len(new_results)]_vars

C10_InterruptNotPropagated ==
    ~(pc = "raised" /\ exc.type = "KeyboardInterrupt" /\ exc.at \in {"countdown", "reprompt"})

C12_NoReaderLeft ==
    pc \notin {"countdown", "get_nowait"} => readers = <<>>

\* the first selector is presenting its list
Presented ==
    /\ pc = "countdown"
    /\ ticks = timeout
    /\ Len(selLog) = 1
    /\ selLog[1].site = "first"

\* C13: the list presented to the selector is a permutation of the providers'
\* results concatenated in enabled order, by non-increasing score, candidates
\* of equal score in the order of the concatenation: element k of the
\* concatenation stands behind the elements with a greater score and behind
\* the earlier elements with an equal score
C13_StableRanking ==
    Presented =>
        LET u == selLog[1].unranked
            key(r) == SortKey(query, r)
            ord(r) == CHOOSE n \in 1..Len(Providers) : ProviderTag(Providers[n]) = r.source
            RankPos(k) ==
                1 + Cardinality({j \in 1..Len(u) : RatioGreater(key(u[j]), key(u[k]))})
                  + Cardinality({j \in 1..(k - 1) : /\ ~RatioGreater(key(u[j]), key(u[k]))
                                                    /\ ~RatioGreater(key(u[k]), key(u[j]))})
        IN  /\ Len(all_results) = Len(u)
            /\ \A k \in 1..Len(u) : all_results[RankPos(k)] = u[k]
            /\ \A i, j \in 1..Len(u) : i < j => ord(u[i]) <= ord(u[j])
            /\ \A i \in 1..(Len(all_results) - 1) :
                  ~RatioGreater(key(all_results[i + 1]), key(all_results[i]))

\* C13 happens: YouTube Music answered with two candidates and MusicBrainz
\* with one whose score equals that of the first; it is ranked second, behind
\* the candidate of the provider enabled earlier
C13_Witness ==
    /\ Presented
    /\ selLog[1].unranked =
          <<YtmRecord(YtmUpstream[1]), YtmRecord(YtmUpstream[2]), MbRecord(MbUpstream[1])>>
    /\ all_results =
          <<YtmRecord(YtmUpstream[1]), MbRecord(MbUpstream[1]), YtmRecord(YtmUpstream[2])>>
    /\ ~RatioGreater(SortKey(query, all_results[1]), SortKey(query, all_results[2]))

\* C14: a candidate whose lowercased artist + ' ' + title equals the lowercased
\* query has the maximal score 1 and is ranked ahead of every candidate whose
\* string differs, in the merged ranking and in the ranking of the directed
\* search, which returns the first of its list
C14_ExactMatchFirst ==
    [][LET IsExact(r) == Lower(r.artist \o <<" ">> \o r.title) = Lower(query)
           Maximal(r) == SortKey(query, r).num = SortKey(query, r).den
       IN  /\ (pc = "rank" /\ pc' = "countdown") =>
                  \A k \in 1..Len(all_results) :
                      IsExact(all_results[k]) =>
                          /\ Maximal(all_results[k])
                          /\ \E i \in 1..Len(all_results') :
                                /\ all_results'[i] = all_results[k]
                                /\ \A j \in 1..Len(all_results') :
                                      ~IsExact(all_results'[j]) => i < j
           /\ (pc = "directed_ret" /\ pc' = "step3") =>
                  ((\E k \in 1..Len(retval.list) : IsExact(retval.list[k])) =>
                      IsExact(metadata') /\ Maximal(metadata'))]_vars

\* C14 happens: the second candidate of the unranked list is the exact match
\* and is presented first
C14_Witness ==
    /\ Presented
    /\ Len(all_results) = 2
    /\ all_results[1] = selLog[1].unranked[2]
    /\ Lower(all_results[1].artist \o <<" ">> \o all_results[1].title) = Lower(query)
    /\ Lower(all_results[2].artist \o <<" ">> \o all_results[2].title) # Lower(query)

\* C15: in both scripts a cover whose URL is on the video-thumbnail host
\* (ytimg.com) and is not matched by the high-resolution pattern is cropped
\* to a centred square and scaled, and every other cover, one matched by the
\* high-resolution pattern included, is used as it is
C15_CoverClassification ==
    (apc \notin {"idle", "entry"} /\ cover_path = "present") =>
        LET cover_url == FilteredThumbnail(thumbnail)
        IN  (filter_complex = "crop_scale") <=>
                (Contains(cover_url, sYtimg) /\ ~HighResPattern(cover_url))

\* C16: the query process_track builds is artist + ' ' + track when the entry
\* carries both tags, and otherwise what extract_search_query derives: the
\* two cleaned parts of an "Artist - Title" title joined by a space, else the
\* cleaned uploader and the cleaned title
C16_QueryPriority ==
    [][pc = "start" =>
          query' = IF Truthy(entry.track) /\ Truthy(entry.artist)
                   THEN entry.artist \o <<" ">> \o entry.track
                   ELSE extract_search_query(entry)]_vars

\* C17: with the three providers disabled and neither a source directive nor
\* a metadata URL, no provider search or fetch is started for the track, no
\* prompt waits for the human, and the finalized record is the platform
\* fallback
C17_AllDisabledFallsBack ==
    (config = AllOff /\ meta_source = None /\ metadata_url = None) =>
        /\ \A i \in 1..Len(calls) : calls[i].op = "fallback"
        /\ prompts = 0
        /\ pc # "manual_prompt"
        /\ pc = "finalized" => metadata.source = sFallback

\* C18: the record get_youtube_fallback_metadata returns has its title
\* cleaned of the boilerplate clauses ("(Official ...)", "[Official ...]",
\* "(... Audio)", "(... Video)", "(... MV)", feat./ft.) and its artist
\* cleaned of "- Topic", "VEVO" and "Official", whether it is built from the
\* freshly fetched listing or, after the last failed attempt, from the entry
C18_FallbackCleaned ==
    pc = "fallback_ret" =>
        LET last == callLog[Len(callLog)]
            d == IF last.ok THEN last.data[1] ELSE entry
            boilerplate == <<"official_paren", "official_bracket", "audio",
                             "video", "paren_mv", "feat">>
        IN  /\ retval.rec.title = ReSubAll(boilerplate, Get(d.title, sUnknown))
            /\ retval.rec.artist = CleanUploader(Get(d.uploader, sUnknown))

C21_FetchMissNoRetry ==
    [][(pc = "call" /\ call.op = "fetch") =>
          LET answered == Len(callLog') = Len(callLog) + 1
              last == callLog'[Len(callLog')]
              d == last.data[1]
              insufficient ==
                  /\ answered
                  /\ last.kind = "ok"
                  /\ last.data # <<>>
                  /\ \/ /\ call.prov = "ytm"
                        /\ \/ ~Truthy(Or(GetOrNone(d.track), GetOrNone(d.title)))
                           \/ ~Truthy(Or(GetOrNone(d.artist), GetOrNone(d.uploader)))
                     \/ /\ call.prov = "it"
                        /\ d = ItItem(Absent, Absent)
          IN  /\ ~UrlAccepted(call.prov, call.arg) =>
                    /\ pc' = call.ret
                    /\ callLog' = <<>>
                    /\ retval'.rec = NoMeta
              /\ insufficient => (pc' = call.ret /\ retval'.rec = NoMeta)
              /\ (call.prov = "ytm" /\ pc' = call.ret /\ retval'.rec # NoMeta) =>
                    (Truthy(retval'.rec.title) /\ Truthy(retval'.rec.artist))]_vars

\* C21 happens: ytmsd.py's YouTube Music fetch got an answer without title on
\* its first attempt and returned None
C21_Witness ==
    /\ impl = "ytmsd"
    /\ pc = "done"
    /\ call.op = "fetch"
    /\ call.prov = "ytm"
    /\ Len(callLog) = 1
    /\ callLog[1].kind = "ok"
    /\ ~Truthy(YtmRecord(callLog[1].data[1]).title)
    /\ retval.rec = NoMeta

\* C22: every search and fetch of a resolution goes to a provider that the
\* configuration enables
C22_OnlyEnabledQueried ==
    \A i \in 1..Len(calls) :
        calls[i].op \in {"search", "fetch"} => config[calls[i].prov]

\* C23: unless a valid directive is given, a fallback record is built only
\* after the selector has been entered, and, when a metadata URL is supplied
\* and a provider is enabled, only after that URL has been fetched
C23_FallbackLast ==
    \A i \in 1..Len(calls) :
        (/\ calls[i].op = "fallback"
         /\ ~(Truthy(meta_source) /\ Lower(meta_source) \in valid_sources)) =>
            /\ Len(selLog) >= 1
            /\ (Truthy(metadata_url) /\ sources # <<>>) =>
                  \E j \in 1..(i - 1) : calls[j].op = "fetch" /\ calls[j].site = "url"

\* C24: with a valid directive the track's own URL is not fetched, nothing is
\* asked of any provider but a search of the named one (nothing at all for
\* 'yt'), the selector is not entered, the metadata URL is not fetched, the
\* directed search yields a candidate of maximal score among those returned,
\* and the finalized record is that provider's or the fallback
C24_DirectiveHonoured ==
    [][(Truthy(meta_source) /\ Lower(meta_source) \in valid_sources) =>
          /\ selLog' = <<>>
          /\ \A i \in 1..Len(calls') :
                \/ calls'[i].op = "fallback"
                \/ /\ calls'[i].op = "search"
                   /\ Lower(meta_source) # sYt
                   /\ calls'[i].prov = SourceOf(Lower(meta_source))
          /\ (pc = "directed_ret" /\ pc' = "step3") =>
                /\ \E k \in 1..Len(retval.list) : metadata' = retval.list[k]
                /\ \A k \in 1..Len(retval.list) :
                      ~RatioGreater(SortKey(query, retval.list[k]), SortKey(query, metadata'))
          /\ pc' = "finalized" =>
                \/ metadata'.source = sFallback
                \/ /\ Lower(meta_source) # sYt
                   /\ metadata'.source = ProviderTag(SourceOf(Lower(meta_source)))]_vars

\* C24 happens: directive and metadata URL both given, the directed search's
\* record is finalized after a single provider operation
C24_Witness ==
    /\ meta_source = sMb
    /\ Truthy(metadata_url)
    /\ pc = "finalized"
    /\ metadata.source = "MusicBrainz"
    /\ Len(calls) = 1
    /\ selLog = <<>>

\* C25: the fetches on the supplied metadata URL go to the enabled providers
\* in enabled order, one after the other; the record the first of them
\* returns is kept and finalized with no further provider operation; the
\* search step starts only when every enabled provider returned none
C25_MetadataUrlFirstWins ==
    [][LET OnUrl(c) == c.site = "url"
           fetched == SelectSeq(calls', OnUrl)
       IN  /\ Len(fetched) <= Len(sources)
           /\ \A n \in 1..Len(fetched) :
                 fetched[n].op = "fetch" /\ fetched[n].prov = sources[n]
           /\ Len(calls') > Len(calls) /\ OnUrl(calls'[Len(calls')]) =>
                 (Truthy(metadata_url) /\ metadata = NoMeta /\ pc # "call")
           /\ (pc = "url_ret" /\ retval.rec # NoMeta) => metadata' = retval.rec
           /\ (Len(calls) > 0 /\ OnUrl(LastCall) /\ metadata # NoMeta) =>
                 /\ metadata' = metadata
                 /\ calls' = calls
                 /\ selLog' = selLog
                 /\ pc' \in {"step4", "finalized"}
           /\ (Truthy(metadata_url) /\ pc' = "search_loop" /\ pc = "step4") =>
                 (metadata = NoMeta /\ Len(fetched) = Len(sources))]_vars

\* C25 happens: the first enabled provider returned none for the URL, the
\* second one a record, which is finalized
C25_Witness ==
    /\ pc = "finalized"
    /\ metadata_url = UrlIt
    /\ Len(calls) = 2
    /\ calls[1] = [op |-> "fetch", prov |-> "mb", site |-> "url"]
    /\ calls[2] = [op |-> "fetch", prov |-> "it", site |-> "url"]
    /\ metadata.source = "iTunes"

\* C26: in the search step every enabled provider is searched with the query
\* exactly once, in enabled order, one call after the other; the selector is
\* entered over the ranked concatenation of the returned lists; an index the
\* human chose finalizes the entry of the displayed list at that index
C26_SearchThenSelect ==
    [][LET OnSearch(c) == c.site = "search"
           searched == SelectSeq(calls', OnSearch)
       IN  /\ Len(searched) <= Len(sources)
           /\ \A n \in 1..Len(searched) :
                 searched[n].op = "search" /\ searched[n].prov = sources[n]
           /\ Len(calls') > Len(calls) /\ OnSearch(calls'[Len(calls')]) =>
                 (metadata = NoMeta /\ pc = "search_loop" /\ call'.arg = query)
           /\ pc = "search_ret" => all_results' = all_results \o retval.list
           /\ pc = "rank" =>
                 /\ Len(searched) = Len(sources)
                 /\ pc' = "countdown"
                 /\ all_results' = SortDesc(query, all_results)
                 /\ Len(selLog') = 1
                 /\ selLog'[1].max = Len(all_results)
           /\ (/\ pc = "chosen"
               /\ selLog[Len(selLog)].site = "first"
               /\ selLog[Len(selLog)].how = "value"
               /\ choice \in 1..Len(all_results)) =>
                 (pc' = "finalized" /\ metadata' = all_results[choice])]_vars

C28_ManualLink ==
    [][LET OnLink(c) == c.site = "link"
           linked == SelectSeq(calls', OnLink)
           IsLink(s) == StartsWith(s, sHttp) \/ StartsWith(s, sHttps)
       IN  /\ Len(linked) <= Len(sources)
           /\ \A n \in 1..Len(linked) :
                 linked[n].op = "fetch" /\ linked[n].prov = sources[n]
           /\ (Len(calls') > Len(calls) /\ OnLink(calls'[Len(calls')])) =>
                 /\ pc = "link_loop"
                 /\ IsLink(user_input)
                 /\ call'.arg = user_input
                 /\ selLog[Len(selLog)].ret = 0
           /\ (pc = "manual_got" /\ Truthy(user_input) /\ IsLink(user_input)) =>
                 (pc' = "link_loop" /\ idx' = 1 /\ calls' = calls)
           /\ (pc = "link_ret" /\ retval.rec # NoMeta) =>
                 (pc' = "finalized" /\ metadata' = retval.rec)
           /\ (pc = "link_loop" /\ idx > Len(sources)) =>
                 (Len(linked) = Len(sources) /\ pc' = "call" /\ call'.op = "fallback")
           /\ (pc = "manual_got" /\ ~Truthy(user_input)) =>
                 (pc' = "call" /\ call'.op = "fallback")
           /\ (pc = "fallback_ret" /\ LastCall.site \in {"link_miss", "manual_empty"}) =>
                 (pc' = "finalized" /\ metadata' = retval.rec /\ metadata'.source = sFallback)
           /\ (/\ prompts >= 1
               /\ pc \notin {"manual_prompt", "raised"}
               /\ ~Truthy(user_input) \/ IsLink(user_input)) =>
                 (selLog' = selLog /\ prompts' = prompts /\ pc' # "raised")]_vars

\* C28 happens: 0, then a link; the first enabled provider returned none for
\* it, the second a record, which is finalized
C28_Witness ==
    /\ pc = "finalized"
    /\ Len(selLog) = 1
    /\ selLog[1].ret = 0
    /\ selLog[1].how = "value"
    /\ user_input = UrlMb
    /\ Len(calls) >= 2
    /\ calls[Len(calls) - 1].site = "link"
    /\ LastCall = [op |-> "fetch", prov |-> "mb", site |-> "link"]
    /\ metadata.source = "MusicBrainz"

\* C29: a record returned by get_youtube_fallback_metadata carries
\* 'YouTube Fallback', a record returned by a provider's search or fetch
\* carries that provider's tag; `metadata` is assigned once, with a returned
\* record or a candidate of a returned list, unchanged; so the finalized
\* record carries 'YouTube Fallback' exactly when the fallback built it
C29_ProvenanceMatchesPath ==
    [][LET TagOf(c) == IF c.op = "fallback" THEN sFallback ELSE ProviderTag(c.prov)
           FromSearch(r) == \E j \in 1..Len(calls') :
                                /\ calls'[j].op = "search"
                                /\ r.source = ProviderTag(calls'[j].prov)
       IN  /\ (pc = "call" /\ pc' \notin {"call", "raised"}) =>
                 /\ retval'.rec # NoMeta => retval'.rec.source = TagOf(call)
                 /\ \A i \in 1..Len(retval'.list) : retval'.list[i].source = TagOf(call)
           /\ \A i \in 1..Len(all_results') : FromSearch(all_results'[i])
           /\ (metadata' # metadata /\ pc' # "raised") =>
                 /\ metadata = NoMeta
                 /\ \/ /\ pc \in {"step1_ret", "url_ret", "link_ret", "fallback_ret"}
                       /\ metadata' = retval.rec
                       /\ metadata'.source = TagOf(call)
                    \/ /\ pc = "directed_ret"
                       /\ \E i \in 1..Len(retval.list) : metadata' = retval.list[i]
                       /\ metadata'.source = TagOf(call)
                    \/ /\ pc = "chosen"
                       /\ \E i \in 1..Len(all_results) : metadata' = all_results[i]
           /\ pc' = "finalized" =>
                 /\ metadata'.source = sFallback <=> calls'[Len(calls')].op = "fallback"
                 /\ metadata'.source # sFallback =>
                       \E j \in 1..Len(calls') :
                           /\ calls'[j].op \in {"search", "fetch"}
                           /\ metadata'.source = ProviderTag(calls'[j].prov)]_vars

\* C29 happens: a candidate of the second provider searched was chosen at the
\* selector and is finalized with that provider's tag
C29_Witness ==
    /\ pc = "finalized"
    /\ Len(selLog) = 1
    /\ selLog[1].ret \in {1, 2}
    /\ Len(calls) = 2
    /\ calls[1].op = "search"
    /\ LastCall.op = "search"
    /\ metadata.source = ProviderTag(LastCall.prov)
    /\ metadata.source # ProviderTag(calls[1].prov)

\* C30: whatever way get_user_choice returns (a typed value, the timeout, an
\* input error, an interrupt at the re-prompt), its value is -1 or lies in
\* 0..max_choice, and max_choice is the length of the list shown; a value
\* that process_track uses as an index is within 1..len(list)
C30_ChoiceInRange ==
    /\ \A i \in 1..Len(selLog) :
          selLog[i].how # "pending" =>
              /\ selLog[i].how \in {"value", "timeout", "input_error", "interrupt"}
              /\ selLog[i].ret \in {-1} \cup 0..selLog[i].max
    /\ pc = "chosen" =>
          LET s == selLog[Len(selLog)]
              list == IF s.site = "nested" THEN new_results ELSE all_results
          IN  /\ choice = s.ret
              /\ s.max = Len(list)
              /\ choice \notin {-1, 0} => choice \in 1..Len(list)

\* C30 happens: the human typed the index of the last candidate shown
C30_Witness ==
    /\ pc = "chosen"
    /\ selLog[Len(selLog)].how = "value"
    /\ Len(all_results) = 2
    /\ choice = 2

\* C31: a line the human types is consumed by the prompt that is waiting for
\* it: a reader thread takes a line only while the get_user_choice call that
\* started it is still waiting for its queue
C31_ReadersIsolated ==
    [][(stdin = "open" /\ readers # <<>> /\ readers' = Tail(readers)) =>
          (Head(readers) = Len(selLog) /\ pc \in {"countdown", "get_nowait"})]_vars

\* C32: the tasks are taken in list order, one at a time, each task with a
\* valid URL is attempted once, and when main ends every task with a valid
\* URL has been attempted, whatever failed in the tasks before it
C32_BatchContinues ==
    LET Valid(i) == tasks[i].valid
    IN  /\ \A i, j \in 1..Len(attempted) : i < j => attempted[i] < attempted[j]
        /\ \A i \in 1..Len(attempted) : Valid(attempted[i]) /\ attempted[i] <= task_idx
        /\ mpc \in {"processed", "exit1"} =>
              \A k \in 1..Len(tasks) :
                  Valid(k) => \E i \in 1..Len(attempted) : attempted[i] = k

\* C33: in ytmscp_cli.py, when the cover file handed to apply_metadata came
\* from a video-thumbnail URL (ytimg.com), apply_metadata takes the crop
\* branch
C33_CropFollowsCover ==
    (/\ apc \in {"crop", "embed", "applied", "failed"}
     /\ cover_path = "present"
     /\ Contains(cover_src, sYtimg)
     /\ ~Contains(cover_src, sLh3)) => filter_complex = "crop_scale"

\* C34: _select_thumbnail returns the URL of the first thumbnail, in list
\* order, that is on the high-resolution CDN and has width and height
\* parameters; the default thumbnail when there is none and it is present;
\* None otherwise
C34_FirstHighResThumbnail ==
    tpc = "returned" =>
        LET OnCdn(u) == StartsWith(u, sHttps \o sLh3 \o <<"/">>)
            HasDims(u) ==
                \E i, j \in 1..Len(u) :
                    /\ i < j
                    /\ MatchesAt(u, i, <<"=","w">>)
                    /\ i + 2 <= Len(u) /\ u[i + 2] \in Digits
                    /\ MatchesAt(u, j, <<"-","h">>)
                    /\ j + 2 <= Len(u) /\ u[j + 2] \in Digits
            Url(i) == Get(thumbnails[i].url, <<>>)
            good == {i \in 1..Len(thumbnails) : OnCdn(Url(i)) /\ HasDims(Url(i))}
        IN  IF good # {}
            THEN selected = Url(SetMin(good))
            ELSE IF default_thumbnail # None
                 THEN selected = default_thumbnail
                 ELSE selected = None

\* C35: every provider call of a run is made with the timeout of the
\* configuration load_config returned
C35_TimeoutFromConfig ==
    (cpc \in CallOps /\ loaded.has_timeout) => used_timeout = loaded.timeout

\* the file can be used: JSON, an object, with a 'sources' object
Usable(file) ==
    /\ file.kind = "json"
    /\ file.value.kind = "dict"
    /\ file.value.sources.kind = "dict"

\* C36: a configuration file that is missing or cannot be used gives the
\* built-in defaults, and get_enabled_sources does not fail
C36_ConfigFallsBack ==
    /\ cpc # "raised"
    /\ (cpc \notin {"idle", "load"} /\ ~Usable(config_file)) => loaded = DEFAULT_CONFIG

\* the command has `-o` followed by the output path, `--extractor-args`
\* followed by a player client value, and the URL as its last argument
WellFormed(c) ==
    /\ \E i \in 1..(Len(c) - 1) : c[i] = "-o" /\ c[i + 1] = output_path
    /\ \E i \in 1..(Len(c) - 1) :
          /\ c[i] = "--extractor-args"
          /\ c[i + 1] \in {PlayerClient(TRUE), PlayerClient(FALSE),
                           "youtube:player_client=ios"}
    /\ c[Len(c)] = url

\* C37: every command download_audio of ytmscp_cli.py runs, the retry with
\* the other player client included, is well-formed
C37_CommandWellFormed ==
    impl = "ytmscp" => \A i \in 1..Len(runs) : WellFormed(runs[i])

=============================================================================
